---- MODULE Spec2Model ----
(***************************************************************************)
(* Model of the workflow execution engine of pallet                        *)
(* (src/src/workflow_engine.py): WorkflowContext and its template          *)
(* resolver, the step dispatcher (discovery cache + remote invocation)     *)
(* and the WorkflowEngine state machine that drives Sequential, Parallel,  *)
(* Conditional and Switch steps.                                           *)
(*                                                                         *)
(* Python strings are sequences of one-character strings, so that the      *)
(* regular expression and the split of resolve_expression are computed     *)
(* the way the code computes them.  Python values are tagged records.      *)
(***************************************************************************)
EXTENDS Integers, Sequences, FiniteSets, TLC

----------------------------------------------------------------------------
(* Bounds of the model *)

\* number of nested steps of the generated Parallel groups
MaxGroup == 2

\* number of distinct results a remote skill may return
MaxResults == 2

----------------------------------------------------------------------------
(* Python values *)

NoneV == [t |-> "none"]
PyStr(s) == [t |-> "str", s |-> s]
PyDict(m) == [t |-> "dict", m |-> m]
PyList(l) == [t |-> "list", l |-> l]
PyInt(n) == [t |-> "int", n |-> n]
PyBool(b) == [t |-> "bool", b |-> b]

\* an exception propagating out of an expression
Raised(exc) == [t |-> "raise", exc |-> exc]

EmptyDict == PyDict(<<>>)

\* Python truthiness (bool(v))
Truthy(v) ==
    CASE v.t = "none" -> FALSE
      [] v.t = "str"  -> v.s # <<>>
      [] v.t = "dict" -> DOMAIN v.m # {}
      [] v.t = "list" -> v.l # <<>>
      [] v.t = "int"  -> v.n # 0
      [] v.t = "bool" -> v.b
      [] OTHER        -> TRUE

----------------------------------------------------------------------------
(* Strings used by the engine and by the workflows of the model *)

W_workflow == <<"w", "o", "r", "k", "f", "l", "o", "w">>
W_input == <<"i", "n", "p", "u", "t">>
W_steps == <<"s", "t", "e", "p", "s">>
W_outputs == <<"o", "u", "t", "p", "u", "t", "s">>

RECURSIVE Join(_)
\* ".".join(segs)
Join(segs) ==
    IF Len(segs) = 0 THEN <<>>
    ELSE IF Len(segs) = 1 THEN segs[1]
    ELSE segs[1] \o <<".">> \o Join(Tail(segs))

\* the template string "{{ a.b.c }}"
Tpl(segs) == PyStr(<<"{", "{", " ">> \o Join(segs) \o <<" ", "}", "}">>)

----------------------------------------------------------------------------
(* WorkflowContext.resolve_expression *)

IsSpace(c) == c \in {" ", "\t", "\n"}

RECURSIVE LStrip(_)
LStrip(s) == IF s # <<>> /\ IsSpace(Head(s)) THEN LStrip(Tail(s)) ELSE s

RECURSIVE RStrip(_)
RStrip(s) ==
    IF s # <<>> /\ IsSpace(s[Len(s)])
    THEN RStrip(SubSeq(s, 1, Len(s) - 1))
    ELSE s

\* str.strip()
Strip(s) == RStrip(LStrip(s))

RECURSIVE LeadingSpaces(_, _)
\* number of consecutive whitespace characters of s from position p on
LeadingSpaces(s, p) ==
    IF p <= Len(s) /\ IsSpace(s[p]) THEN 1 + LeadingSpaces(s, p + 1) ELSE 0

\* `\s*}}` matches at position p of s
ClosesAt(s, p) ==
    LET q == p + LeadingSpaces(s, p)
    IN  q + 1 <= Len(s) /\ s[q] = "}" /\ s[q + 1] = "}"

NoMatch == [ok |-> FALSE, g |-> <<>>]

RECURSIVE LazyGroup(_, _, _)
\* the backtracking of `\s*(.+?)\s*}}` after "{{": the first `\s*` took k
\* whitespace characters and the group is tried with n characters; a group
\* that cannot be extended makes the first `\s*` give one character back
LazyGroup(s, k, n) ==
    IF 3 + k + n - 1 > Len(s) \/ s[3 + k + n - 1] = "\n"
    THEN IF k = 0 THEN NoMatch ELSE LazyGroup(s, k - 1, 1)
    ELSE IF ClosesAt(s, 3 + k + n)
         THEN [ok |-> TRUE, g |-> SubSeq(s, 3 + k, 3 + k + n - 1)]
         ELSE LazyGroup(s, k, n + 1)

\* re.match(r"{{\s*(.+?)\s*}}", s): the match anchors at the start only;
\* the first `\s*` is greedy (most whitespace first), the group is lazy
\* (shortest first) and `.` does not match a newline.
TemplateMatch(s) ==
    IF Len(s) >= 2 /\ s[1] = "{" /\ s[2] = "{"
    THEN LazyGroup(s, LeadingSpaces(s, 3), 1)
    ELSE NoMatch

RECURSIVE IndexOfDot(_, _)
\* position of the first "." of s from position p on, 0 if there is none
IndexOfDot(s, p) ==
    IF p > Len(s) THEN 0
    ELSE IF s[p] = "." THEN p
    ELSE IndexOfDot(s, p + 1)

RECURSIVE Split(_)
RECURSIVE SplitAt(_, _)
SplitAt(s, i) ==
    IF i = 0 THEN <<s>>
    ELSE <<SubSeq(s, 1, i - 1)>> \o Split(SubSeq(s, i + 1, Len(s)))

\* str.split(".")
Split(s) == SplitAt(s, IndexOfDot(s, 1))

RECURSIVE NavigateLenient(_, _)
\* a key that cannot be followed is skipped: the value reached so far is kept
NavigateLenient(data, path) ==
    IF path = <<>> THEN data
    ELSE IF data.t = "dict" /\ Head(path) \in DOMAIN data.m
         THEN NavigateLenient(data.m[Head(path)], Tail(path))
         ELSE NavigateLenient(data, Tail(path))

RECURSIVE Navigate(_, _)
\* the loop `for key in path` of resolve_expression
Navigate(data, path) ==
    IF path = <<>> THEN data
    ELSE IF data.t = "dict" /\ Head(path) \in DOMAIN data.m
         THEN Navigate(data.m[Head(path)], Tail(path))
         ELSE NoneV

\* resolve_expression, from `path = match.group(1).split(".")` on: path[1]
\* is read when path[0] is "workflow" or "steps", whatever the length of path
ResolvePath(path, wi, so) ==
    IF path[1] = W_workflow
    THEN IF Len(path) < 2 THEN Raised("IndexError")
         ELSE IF path[2] = W_input
              THEN Navigate(wi, SubSeq(path, 3, Len(path)))
              ELSE NoneV
    ELSE IF path[1] = W_steps
    THEN IF Len(path) < 2 THEN Raised("IndexError")
         ELSE IF path[2] \notin DOMAIN so THEN NoneV
              ELSE Navigate(so[path[2]], SubSeq(path, 3, Len(path)))
    ELSE NoneV

\* resolve_expression, from `if not match` on
ResolveMatch(e, m, wi, so) ==
    IF ~m.ok THEN e ELSE ResolvePath(Split(m.g), wi, so)

\* resolve_expression(expression) against workflow_input wi and step_outputs so
ResolveExpression(e, wi, so) ==
    IF e.t # "str" THEN e
    ELSE ResolveMatch(e, TemplateMatch(Strip(e.s)), wi, so)

RECURSIVE HasRaise(_)
\* some expression of the value raised while it was being built
HasRaise(v) ==
    CASE v.t = "raise" -> TRUE
      [] v.t = "dict"  -> \E k \in DOMAIN v.m : HasRaise(v.m[k])
      [] v.t = "list"  -> \E i \in 1..Len(v.l) : v.l[i].t = "raise"
      [] OTHER         -> FALSE

\* the comprehension of resolve_inputs over a list value
ResolveList(l, wi, so) ==
    PyList([i \in 1..Len(l) |->
              IF l[i].t = "str" THEN ResolveExpression(l[i], wi, so) ELSE l[i]])

RECURSIVE ResolveDict(_, _, _)
\* the loop of resolve_inputs
ResolveDict(inputs, wi, so) ==
    PyDict([k \in DOMAIN inputs.m |->
              CASE inputs.m[k].t = "str"  -> ResolveExpression(inputs.m[k], wi, so)
                [] inputs.m[k].t = "dict" -> ResolveDict(inputs.m[k], wi, so)
                [] inputs.m[k].t = "list" -> ResolveList(inputs.m[k].l, wi, so)
                [] OTHER                  -> inputs.m[k]])

\* an exception raised while the mapping was built propagates
Propagate(r) == IF HasRaise(r) THEN Raised("IndexError") ELSE r

\* resolve_inputs(inputs): the resolved mapping, or the exception that
\* resolve_expression raised on one of the values
ResolveInputs(inputs, wi, so) == Propagate(ResolveDict(inputs, wi, so))

----------------------------------------------------------------------------
(* Workflow document model *)

DefaultTimeout == 300

W_if_true == <<"i", "f", "_", "t", "r", "u", "e">>
W_if_false == <<"i", "f", "_", "f", "a", "l", "s", "e">>
W_default == <<"d", "e", "f", "a", "u", "l", "t">>
W_error == <<"e", "r", "r", "o", "r">>
W_result == <<"r", "e", "s", "u", "l", "t">>

\* a raw step mapping lacks a required field of WorkflowStep
Malformed(raw) == ~({"id", "skill"} \subseteq DOMAIN raw)

\* WorkflowStep(**raw): the typed step, with the defaults of the model class
WorkflowStep(raw) ==
    [id        |-> raw.id,
     skill     |-> raw.skill,
     inputs    |-> IF "inputs" \in DOMAIN raw THEN raw.inputs ELSE EmptyDict,
     outputs   |-> IF "outputs" \in DOMAIN raw THEN raw.outputs ELSE NoneV,
     timeout   |-> IF "timeout" \in DOMAIN raw THEN raw.timeout ELSE PyInt(DefaultTimeout),
     step_type |-> IF "step_type" \in DOMAIN raw THEN raw.step_type ELSE "sequential",
     condition |-> IF "condition" \in DOMAIN raw THEN raw.condition ELSE NoneV,
     branches  |-> IF "branches" \in DOMAIN raw THEN raw.branches ELSE NoneV]

\* an exception: its class, what it reports, the step it names, its cause
Exc(type, kind, step, cause) ==
    [type |-> type, kind |-> kind, step |-> step, cause |-> cause]

----------------------------------------------------------------------------
(* Collaborators: discovery and the remote agents *)

\* discover_agent(skill_id): the URL of the agent, or None
DiscoverAgent(skill) ==
    CASE skill = "plan"  -> PyStr(<<"u", "1">>)
      [] skill = "build" -> PyStr(<<"u", "2">>)
      [] skill = "test"  -> PyStr(<<"u", "3">>)
      [] OTHER           -> NoneV

\* the results a skill may return
Results == {PyDict(<<"r">> :> PyInt(n)) : n \in 1..MaxResults}

\* what may come back from the POST of call_agent_skill
Responses ==
    {[kind |-> "timeout", body |-> NoneV],
     [kind |-> "http_error", body |-> NoneV],
     [kind |-> "json", body |-> PyDict(W_error :> PyStr(<<"e">>))],
     [kind |-> "json", body |-> EmptyDict]}
    \cup {[kind |-> "json", body |-> PyDict(W_result :> r)] : r \in Results}

\* call_agent_skill, from the response on: the skill result or the
\* exception raised
CallAgentSkill(response) ==
    CASE response.kind = "timeout"    -> Raised("httpx.TimeoutException")
      [] response.kind = "http_error" -> Raised("httpx.HTTPError")
      [] OTHER ->
            IF W_error \in DOMAIN response.body.m
            THEN Raised("RuntimeError")
            ELSE IF W_result \in DOMAIN response.body.m
                 THEN response.body.m[W_result]
                 ELSE EmptyDict

----------------------------------------------------------------------------
(* The workflows of the model *)

DigitChar(i) ==
    CASE i = 0 -> "0" [] i = 1 -> "1" [] i = 2 -> "2" [] i = 3 -> "3"
      [] i = 4 -> "4" [] i = 5 -> "5" [] i = 6 -> "6" [] i = 7 -> "7"
      [] i = 8 -> "8" [] OTHER -> "9"

SkillOf(i) == IF i % 2 = 1 THEN "plan" ELSE "build"

\* "{{ steps.<id>.outputs.<rest> }}"
StepRef(id, rest) == Tpl(<<W_steps, id, W_outputs>> \o rest)

\* "{{ workflow.input.<rest> }}"
InputRef(rest) == Tpl(<<W_workflow, W_input>> \o rest)

\* nested step i of the Parallel group whose ids start with letter c: the
\* first reads the output of top-level step `a`, the others read the output
\* of the sibling declared before them; the second declares an outputs name
NestedRaw(c, i) ==
    LET base == [id     |-> <<c, DigitChar(i)>>,
                 skill  |-> SkillOf(i),
                 inputs |-> PyDict(<<"x">> :>
                               IF i = 1 THEN StepRef(<<"a">>, << <<"r">> >>)
                               ELSE StepRef(<<c, DigitChar(i - 1)>>, << <<"r">> >>))]
    IN  IF i = 2 THEN base @@ [outputs |-> PyStr(<<"v">>)] ELSE base

\* a Parallel step with n nested steps
ParallelStep(c, n) ==
    WorkflowStep([id        |-> <<c>>,
                  skill     |-> "none",
                  step_type |-> "parallel",
                  branches  |-> PyDict(W_steps :> [i \in 1..n |-> NestedRaw(c, i)])])

StepA == WorkflowStep([id |-> <<"a">>, skill |-> "plan"])

StepB ==
    WorkflowStep([id      |-> <<"b">>,
                  skill   |-> "build",
                  inputs  |-> PyDict(<<"x">> :> StepRef(<<"a">>, << <<"r">> >>)),
                  outputs |-> PyStr(<<"v">>)])

StepC ==
    WorkflowStep([id     |-> <<"c">>,
                  skill  |-> "plan",
                  inputs |-> PyDict((<<"x">> :> StepRef(<<"b">>, << <<"v">> >>))
                                 @@ (<<"w">> :> InputRef(<< <<"f">> >>)))])

\* reads what a Parallel group p left in the Context
StepZ ==
    WorkflowStep([id     |-> <<"z">>,
                  skill  |-> "test",
                  inputs |-> PyDict((<<"x">> :> StepRef(<<"p", "1">>, << <<"r">> >>))
                                 @@ (<<"y">> :> StepRef(<<"p", "2">>, << <<"v">> >>)))])

\* a step whose skill no agent provides
StepGhost == WorkflowStep([id |-> <<"g">>, skill |-> "ghost"])

BranchRaw(c, i) ==
    LET base == [id |-> <<c, DigitChar(i)>>, skill |-> SkillOf(i + 1)]
    IN  IF i = 1 THEN base
        ELSE base @@ [inputs |-> PyDict(<<"x">> :>
                                    StepRef(<<c, DigitChar(i - 1)>>, << <<"r">> >>))]

ConditionalStep ==
    WorkflowStep([id        |-> <<"k">>,
                  skill     |-> "none",
                  step_type |-> "conditional",
                  condition |-> InputRef(<< <<"f">> >>),
                  branches  |-> PyDict((W_if_true :> <<BranchRaw("t", 1), BranchRaw("t", 2)>>)
                                    @@ (W_if_false :> <<BranchRaw("f", 1)>>))])

SwitchStep ==
    WorkflowStep([id        |-> <<"s">>,
                  skill     |-> "none",
                  step_type |-> "switch",
                  condition |-> StepRef(<<"a">>, << <<"r">> >>),
                  branches  |-> PyDict((<<"1">> :> <<BranchRaw("m", 1), BranchRaw("m", 2)>>)
                                    @@ (W_default :> <<BranchRaw("d", 1)>>))])

UnknownStep ==
    WorkflowStep([id |-> <<"u">>, skill |-> "plan", step_type |-> "loop"])

\* a Switch step whose case "1" is present with an empty step list
SwitchEmptyCase ==
    WorkflowStep([id        |-> <<"e">>,
                  skill     |-> "none",
                  step_type |-> "switch",
                  condition |-> StepRef(<<"a">>, << <<"r">> >>),
                  branches  |-> PyDict((<<"1">> :> <<>>)
                                    @@ (W_default :> <<BranchRaw("d", 1)>>))])

\* a Switch step without a default case
SwitchNoDefault ==
    WorkflowStep([id        |-> <<"n">>,
                  skill     |-> "none",
                  step_type |-> "switch",
                  condition |-> StepRef(<<"a">>, << <<"r">> >>),
                  branches  |-> PyDict(<<"1">> :> <<BranchRaw("m", 1)>>)])

\* "{{ steps }}": a template whose evaluation raises
BadTemplate == Tpl(<<W_steps>>)

\* steps that lack a field their pattern needs
MisconfiguredSteps ==
    {WorkflowStep([id |-> <<"x">>, skill |-> "none", step_type |-> "conditional",
                   branches |-> PyDict(W_if_true :> <<BranchRaw("t", 1)>>)]),
     WorkflowStep([id |-> <<"x">>, skill |-> "none", step_type |-> "conditional",
                   condition |-> BadTemplate]),
     WorkflowStep([id |-> <<"x">>, skill |-> "none", step_type |-> "conditional",
                   condition |-> BadTemplate, branches |-> EmptyDict]),
     WorkflowStep([id |-> <<"x">>, skill |-> "none", step_type |-> "switch",
                   branches |-> PyDict(W_default :> <<BranchRaw("d", 1)>>)]),
     WorkflowStep([id |-> <<"x">>, skill |-> "none", step_type |-> "switch",
                   condition |-> BadTemplate]),
     WorkflowStep([id |-> <<"x">>, skill |-> "none", step_type |-> "parallel"]),
     WorkflowStep([id |-> <<"x">>, skill |-> "none", step_type |-> "parallel",
                   branches |-> EmptyDict]),
     WorkflowStep([id |-> <<"x">>, skill |-> "none", step_type |-> "parallel",
                   branches |-> PyDict(W_if_true :> <<BranchRaw("t", 1)>>)])}

\* a Parallel group whose nested steps ask for one and the same skill
ParallelSameSkill ==
    WorkflowStep([id        |-> <<"r">>,
                  skill     |-> "none",
                  step_type |-> "parallel",
                  branches  |-> PyDict(W_steps :>
                                   <<[id |-> <<"r", "1">>, skill |-> "test"],
                                     [id |-> <<"r", "2">>, skill |-> "test"]>>)])

\* a Parallel group with a nested step whose skill no agent provides
ParallelGhost ==
    WorkflowStep([id        |-> <<"h">>,
                  skill     |-> "none",
                  step_type |-> "parallel",
                  branches  |-> PyDict(W_steps :>
                                   <<[id |-> <<"h", "1">>, skill |-> "ghost"],
                                     [id |-> <<"h", "2">>, skill |-> "build"]>>)])

\* a nested step definition without `skill`: WorkflowStep(**raw) rejects it
MalformedRaw == [id |-> <<"w">>]

\* a Conditional step with a malformed definition in if_false; its own
\* inputs hold a template that raises when it is resolved
ConditionalLazy ==
    WorkflowStep([id        |-> <<"k">>,
                  skill     |-> "none",
                  step_type |-> "conditional",
                  inputs    |-> PyDict(<<"e">> :> BadTemplate),
                  condition |-> InputRef(<< <<"f">> >>),
                  branches  |-> PyDict((W_if_true :> <<BranchRaw("t", 1), BranchRaw("t", 2)>>)
                                    @@ (W_if_false :> <<MalformedRaw>>))])

\* a Conditional step with a malformed definition between two well-formed
\* ones in if_true
ConditionalLate ==
    WorkflowStep([id        |-> <<"k">>,
                  skill     |-> "none",
                  step_type |-> "conditional",
                  condition |-> InputRef(<< <<"f">> >>),
                  branches  |-> PyDict((W_if_true :>
                                          <<BranchRaw("t", 1), MalformedRaw, BranchRaw("t", 3)>>)
                                    @@ (W_if_false :> <<BranchRaw("f", 1)>>))])

\* a Switch step with a malformed definition in default
SwitchLazy ==
    WorkflowStep([id        |-> <<"s">>,
                  skill     |-> "none",
                  step_type |-> "switch",
                  inputs    |-> PyDict(<<"e">> :> BadTemplate),
                  condition |-> StepRef(<<"a">>, << <<"r">> >>),
                  branches  |-> PyDict((<<"1">> :> <<BranchRaw("m", 1), BranchRaw("m", 2)>>)
                                    @@ (W_default :> <<BranchRaw("d", 1), MalformedRaw>>))])

\* a Parallel group with a malformed definition after a well-formed one
ParallelMalformed ==
    WorkflowStep([id        |-> <<"p">>,
                  skill     |-> "none",
                  step_type |-> "parallel",
                  inputs    |-> PyDict(<<"e">> :> BadTemplate),
                  branches  |-> PyDict(W_steps :> <<BranchRaw("p", 1), MalformedRaw>>)])

\* a Conditional step whose branch steps declare an outputs name
ConditionalNamed ==
    WorkflowStep([id        |-> <<"k">>,
                  skill     |-> "none",
                  step_type |-> "conditional",
                  condition |-> InputRef(<< <<"f">> >>),
                  branches  |-> PyDict((W_if_true :>
                                          <<[id |-> <<"t", "1">>, skill |-> "plan",
                                             outputs |-> PyStr(<<"v">>)],
                                            BranchRaw("t", 2)>>)
                                    @@ (W_if_false :>
                                          <<[id |-> <<"f", "1">>, skill |-> "build",
                                             outputs |-> PyStr(<<"v">>)]>>))])

\* a Parallel group whose two nested steps share an id; only the first
\* declares an outputs name
ParallelSameId ==
    WorkflowStep([id        |-> <<"g">>,
                  skill     |-> "none",
                  step_type |-> "parallel",
                  branches  |-> PyDict(W_steps :>
                                   <<[id |-> <<"d">>, skill |-> "plan",
                                      outputs |-> PyStr(<<"u">>)],
                                     [id |-> <<"d">>, skill |-> "build"]>>)])

\* nested definitions that carry a pattern of their own
NestedParallelRaw ==
    [id        |-> <<"n", "1">>,
     skill     |-> "plan",
     step_type |-> "parallel",
     branches  |-> PyDict(W_steps :> <<[id |-> <<"x", "1">>, skill |-> "build"]>>)]

NestedConditionalRaw ==
    [id        |-> <<"n", "2">>,
     skill     |-> "build",
     step_type |-> "conditional",
     condition |-> InputRef(<< <<"f">> >>),
     branches  |-> PyDict((W_if_true :> <<[id |-> <<"x", "2">>, skill |-> "plan"]>>)
                       @@ (W_if_false :> <<[id |-> <<"x", "3">>, skill |-> "plan"]>>))]

\* a Parallel group and a Conditional step whose nested steps are those
ParallelDeep ==
    WorkflowStep([id        |-> <<"n">>,
                  skill     |-> "none",
                  step_type |-> "parallel",
                  branches  |-> PyDict(W_steps :> <<NestedParallelRaw, NestedConditionalRaw>>)])

ConditionalDeep ==
    WorkflowStep([id        |-> <<"k">>,
                  skill     |-> "none",
                  step_type |-> "conditional",
                  condition |-> InputRef(<< <<"f">> >>),
                  branches  |-> PyDict((W_if_true :> <<NestedConditionalRaw, NestedParallelRaw>>)
                                    @@ (W_if_false :> <<BranchRaw("f", 1)>>))])

\* a Conditional step whose condition is a plain string, not a template
ConditionalLiteral ==
    WorkflowStep([id        |-> <<"k">>,
                  skill     |-> "none",
                  step_type |-> "conditional",
                  condition |-> PyStr(<<"f", "a", "l", "s", "e">>),
                  branches  |-> PyDict((W_if_true :> <<BranchRaw("t", 1), BranchRaw("t", 2)>>)
                                    @@ (W_if_false :> <<BranchRaw("f", 1)>>))])

\* a Conditional step whose condition reads the output of step `b`, which
\* the workflow declares after it
ConditionalUnrecorded ==
    WorkflowStep([id        |-> <<"k">>,
                  skill     |-> "none",
                  step_type |-> "conditional",
                  condition |-> StepRef(<<"b">>, << <<"v">> >>),
                  branches  |-> PyDict((W_if_true :> <<BranchRaw("t", 1), BranchRaw("t", 2)>>)
                                    @@ (W_if_false :> <<BranchRaw("f", 1)>>))])

InputTrue == PyDict(<<"f">> :> PyBool(TRUE))
InputFalse == PyDict(<<"f">> :> PyBool(FALSE))

\* workflow inputs whose field f covers the truthiness of the value kinds,
\* and one without the field
ConditionInputs ==
    {PyDict(<<"f">> :> PyInt(0)),
     PyDict(<<"f">> :> PyInt(1)),
     PyDict(<<"f">> :> PyStr(<<>>)),
     PyDict(<<"f">> :> PyStr(<<"n", "o">>)),
     PyDict(<<"g">> :> PyBool(TRUE))}

Run(entry_, steps, input) == [entry |-> entry_, steps |-> steps, input |-> input]

\* the calls made on a fresh engine
Runs ==
    {Run("execute_workflow", <<StepA, StepB, StepC>>, InputTrue),
     Run("execute_sequential_steps", <<StepA, StepB, StepC>>, InputTrue),
     Run("execute_workflow", <<ParallelStep("p", MaxGroup), ParallelStep("q", MaxGroup)>>, InputTrue),
     Run("execute_workflow", <<StepA, StepGhost, StepB>>, InputTrue),
     Run("execute_workflow", <<StepA, ConditionalStep, StepB>>, InputTrue),
     Run("execute_workflow", <<StepA, ConditionalStep>>, InputFalse),
     Run("execute_workflow", <<StepA, SwitchStep, StepB>>, InputTrue),
     Run("execute_workflow", <<StepA, UnknownStep, StepB>>, InputTrue)}
    \cup {Run("execute_workflow", <<StepA, ParallelStep("p", n), StepZ>>, InputTrue) :
            n \in 1..MaxGroup}
    \cup {Run("execute_workflow", <<StepA, ConditionalStep>>, input) :
            input \in ConditionInputs}
    \cup {Run("execute_workflow", <<StepA, SwitchEmptyCase, StepB>>, InputTrue),
          Run("execute_workflow", <<StepA, SwitchNoDefault, StepB>>, InputTrue),
          Run("execute_workflow", <<ParallelSameSkill, StepA>>, InputTrue),
          Run("execute_workflow", <<StepA, ParallelGhost, StepB>>, InputTrue),
          Run("execute_workflow", <<StepA, StepA>>, InputTrue)}
    \cup {Run("execute_workflow", <<StepA, step, StepB>>, InputTrue) :
            step \in MisconfiguredSteps}
    \cup {Run("execute_workflow", <<StepA, ConditionalLazy, StepB>>, InputTrue),
          Run("execute_workflow", <<StepA, ConditionalLazy, StepB>>, InputFalse),
          Run("execute_workflow", <<StepA, ConditionalLate, StepB>>, InputTrue),
          Run("execute_workflow", <<StepA, SwitchLazy, StepB>>, InputTrue),
          Run("execute_workflow", <<StepA, ParallelMalformed, StepB>>, InputTrue),
          Run("execute_workflow", <<ConditionalNamed, StepB>>, InputTrue),
          Run("execute_workflow", <<StepA, ParallelDeep, StepB>>, InputTrue),
          Run("execute_workflow", <<StepA, ConditionalDeep, StepB>>, InputTrue),
          Run("execute_workflow", <<StepA, ConditionalLiteral, StepB>>, InputFalse)}

\* the same calls, one with a Parallel group whose nested steps share an id,
\* and one with a condition that reads a step declared later
EdgeRuns ==
    Runs \cup {Run("execute_workflow", <<StepA, ParallelSameId, StepB>>, InputTrue),
               Run("execute_workflow", <<StepA, ConditionalUnrecorded, StepB>>, InputTrue)}

----------------------------------------------------------------------------
(* State *)

VARIABLES
    entry,           \* the engine method that was called
    workflow,        \* the step list it was called with
    workflow_input,  \* WorkflowContext.workflow_input
    step_outputs,    \* WorkflowContext.step_outputs
    agent_cache,     \* WorkflowEngine.agent_cache
    pc,              \* where the calling coroutine stands
    idx,             \* position of the loop over the step list
    branch_steps,    \* the raw step list of the selected branch
    bidx,            \* position of the loop over branch_steps
    tasks,           \* every execute_step coroutine created so far
    discovered,      \* the skills discover_agent was called with, in order
    error,           \* the exception the call raised, if any
    key_order,       \* the keys of step_outputs, in the order of the dict
    set_calls,       \* the set_step_output calls made on a Context, in order
    last_call,       \* the last call made on a Context, when it is a resolver call
    runs,            \* the runs that execute concurrently, each with its Context
    finished         \* the coroutines that returned or raised since the last gather
                     \* began, in the order they did

vars == <<entry, workflow, workflow_input, step_outputs, agent_cache, pc, idx,
          branch_steps, bidx, tasks, discovered, finished, error, key_order, set_calls,
          last_call, runs>>

\* no call was made yet on the Context
NoCall == [method |-> "none"]

\* `self.step_outputs[step_id] = ...` on the keys of the dict: a new key goes
\* last, a key that is present keeps its place
InsertKey(order, step_id) ==
    IF \E n \in 1..Len(order) : order[n] = step_id THEN order ELSE Append(order, step_id)

Finished(t) == t.st \in {"done", "failed"}

\* the record is stored without its `outputs` wrapper
SetStepOutputUnwrapped(so, step_id, output) ==
    [k \in DOMAIN so \cup {step_id} |-> IF k = step_id THEN output ELSE so[k]]

\* the new entry replaces the whole mapping
SetStepOutputClobber(so, step_id, output) ==
    [k \in {step_id} |-> PyDict(W_outputs :> output)]

\* set_step_output stores into workflow_input as well
InputAfterSetMerged(wi, step_id, output) ==
    PyDict([k \in DOMAIN wi.m \cup {step_id} |-> IF k = step_id THEN output ELSE wi.m[k]])

\* set_step_output assigns step_outputs only
InputAfterSet(wi, step_id, output) == wi

\* an id that has an entry keeps it (dict.setdefault)
SetStepOutputOnce(so, step_id, output) ==
    [k \in DOMAIN so \cup {step_id} |->
        IF k \in DOMAIN so THEN so[k] ELSE PyDict(W_outputs :> output)]

\* WorkflowContext.set_step_output
SetStepOutput(so, step_id, output) ==
    [k \in DOMAIN so \cup {step_id} |->
        IF k = step_id THEN PyDict(W_outputs :> output) ELSE so[k]]

\* the outputs name is ignored
NamespacedNever(step, result) == result

\* a step without an outputs name is stored under the name "result"
NamespacedAlways(step, result) ==
    PyDict((IF Truthy(step.outputs) THEN step.outputs.s ELSE W_result) :> result)

\* the namespacing rule: `{step.outputs: result}` if step.outputs else result
Namespaced(step, result) ==
    IF Truthy(step.outputs) THEN PyDict(step.outputs.s :> result) ELSE result

PendingTask(step, top, pos) ==
    [top |-> top, pos |-> pos, step |-> step, st |-> "pending",
     params |-> NoneV, result |-> NoneV, exc |-> NoneV, sent |-> 0]

\* execute_step from the resolved inputs to its first suspension: the agent
\* is looked up in the cache; on a hit the request is sent, on a miss
\* discover_agent is handed to the executor
Dispatch(t, params) ==
    IF params.t = "raise"
    THEN [t EXCEPT !.st = "failed",
                   !.exc = Exc(params.exc, "resolve", t.step.id, NoneV)]
    ELSE IF t.step.skill \in DOMAIN agent_cache
         THEN [t EXCEPT !.st = "inflight", !.params = params, !.sent = 1]
         ELSE [t EXCEPT !.st = "discovering", !.params = params]

\* execute_step up to its first suspension
BeginExecuteStep(step, top, pos) ==
    Dispatch(PendingTask(step, top, pos),
             ResolveInputs(step.inputs, workflow_input, step_outputs))

\* a step whose skill has no agent is skipped with an empty result
EndDiscoverySkip(t, agent_url) ==
    IF ~Truthy(agent_url)
    THEN [t EXCEPT !.st = "done", !.result = NoneV]
    ELSE [t EXCEPT !.st = "inflight", !.sent = t.sent + 1]

\* discover_agent_for_skill, after the executor returned agent_url
EndDiscovery(t, agent_url) ==
    IF ~Truthy(agent_url)
    THEN [t EXCEPT !.st = "failed",
                   !.exc = Exc("ValueError", "no_agent", t.step.id, NoneV)]
    ELSE [t EXCEPT !.st = "inflight", !.sent = t.sent + 1]

\* a failed call is sent once more
ExecuteStepRetry(t, exc) ==
    IF t.sent < 2
    THEN [t EXCEPT !.st = "inflight", !.sent = t.sent + 1]
    ELSE [t EXCEPT !.st = "failed",
                   !.exc = Exc("RuntimeError", "failed", t.step.id, Raised(exc))]

\* the handlers of execute_step: asyncio.TimeoutError is reported as a
\* timeout, every other exception as a failure of the step
ExecuteStepFail(t, exc) ==
    [t EXCEPT !.st = "failed",
              !.exc = Exc("RuntimeError",
                          IF exc = "asyncio.TimeoutError" THEN "timed_out" ELSE "failed",
                          t.step.id, Raised(exc))]

\* execute_step, after call_agent_skill returned r or raised
Complete(t, r) ==
    IF r.t = "raise"
    THEN ExecuteStepFail(t, r.exc)
    ELSE [t EXCEPT !.st = "done", !.result = r]

\* execute_step, after the response arrived
EndExecuteStep(t, response) == Complete(t, CallAgentSkill(response))

\* the coroutines of the step list position top
TasksOf(top) == {i \in 1..Len(tasks) : tasks[i].top = top}

\* the coroutines are awaited one after the other
TaskRunnableSerial(i) ==
    \A j \in TasksOf(tasks[i].top) : j < i => Finished(tasks[j])

\* the event loop runs the coroutines handed to gather in the order they
\* were handed over, each up to its first suspension
TaskRunnable(i) ==
    \A j \in TasksOf(tasks[i].top) : j < i => tasks[j].st # "pending"

\* the first step of every coroutine of the group has run
AllStarted(top) == \A j \in TasksOf(top) : tasks[j].st # "pending"

\* gather without return_exceptions: the first exception ends the wait
GatherDoneFirstException(top) ==
    \/ \A j \in TasksOf(top) : Finished(tasks[j])
    \/ \E j \in TasksOf(top) : tasks[j].st = "failed"

\* the wait ends with the first coroutine that finishes
GatherDoneAny(top) ==
    \/ TasksOf(top) = {}
    \/ \E j \in TasksOf(top) : Finished(tasks[j])

\* execute_step stores its own result as soon as it has it
ContextWrittenByStep(so, t) ==
    IF t.st = "done"
    THEN SetStepOutput(so, t.step.id, Namespaced(t.step, t.result))
    ELSE so

\* execute_step returns its result and leaves the Context to its caller
ContextAfterStep(so, t) == so

\* asyncio.gather(*tasks, return_exceptions=True) is done
GatherDone(top) == \A j \in TasksOf(top) : Finished(tasks[j])

Init ==
    /\ \E r \in Runs :
          /\ entry = r.entry
          /\ workflow = r.steps
          /\ workflow_input = r.input
    /\ step_outputs = <<>>
    /\ agent_cache = <<>>
    /\ pc = "loop"
    /\ idx = 1
    /\ branch_steps = <<>>
    /\ bidx = 1
    /\ tasks = <<>>
    /\ discovered = <<>>
    /\ finished = <<>>
    /\ error = NoneV
    /\ key_order = <<>>
    /\ set_calls = <<>>
    /\ last_call = NoCall
    /\ runs = <<>>

----------------------------------------------------------------------------
(* Helpers of the actions *)

StepTypes == {"sequential", "parallel", "conditional", "switch"}

\* dict.get(key, default)
Get(d, key, default) == IF key \in DOMAIN d.m THEN d.m[key] ELSE default

RECURSIVE Digits(_)
Digits(n) == IF n < 10 THEN <<DigitChar(n)>> ELSE Digits(n \div 10) \o <<DigitChar(n % 10)>>

\* str(value), for the scalars a switch expression evaluates to
PyStrOf(v) ==
    CASE v.t = "none" -> <<"N", "o", "n", "e">>
      [] v.t = "bool" -> IF v.b THEN <<"T", "r", "u", "e">> ELSE <<"F", "a", "l", "s", "e">>
      [] v.t = "int"  -> IF v.n < 0 THEN <<"-">> \o Digits(0 - v.n) ELSE Digits(v.n)
      [] v.t = "str"  -> v.s
      [] OTHER        -> <<"{", "}">>

\* the exception is logged and the loop goes on
RaiseAndGoOn(exc) ==
    /\ pc' = "loop"
    /\ error' = exc

\* the exception propagates out of the call
Raise(exc) ==
    /\ pc' = "raised"
    /\ error' = exc

\* the call returns when its first step is over
AdvanceOnce ==
    /\ idx' = idx + 1
    /\ pc' = "returned"

\* the step at idx is over: next iteration of the loop, or `return context`
Advance ==
    /\ idx' = idx + 1
    /\ pc' = IF idx + 1 > Len(workflow) THEN "returned" ELSE "loop"

\* `await self.execute_step(step, context)` runs the coroutine inline
Spawn(t) ==
    /\ tasks' = Append(tasks, t)
    /\ discovered' = IF t.st = "discovering"
                     THEN Append(discovered, t.step.skill)
                     ELSE discovered
    /\ finished' = IF Finished(t) THEN Append(finished, Len(tasks) + 1) ELSE finished

AtStep == entry = "execute_workflow" /\ pc = "loop" /\ idx <= Len(workflow)

RECURSIVE StoreResultsAll(_, _)
\* every result of the group is stored, the exceptions too
StoreResultsAll(so, ts) ==
    IF ts = <<>> THEN so
    ELSE StoreResultsAll(
            SetStepOutput(so, Head(ts).step.id, Namespaced(Head(ts).step, Head(ts).result)),
            Tail(ts))

RECURSIVE StoreResults(_, _)
\* the loop over zip(steps, results) of execute_parallel_steps: it stops at
\* the first result that is an exception
StoreResults(so, ts) ==
    IF ts = <<>> \/ Head(ts).st = "failed" THEN so
    ELSE StoreResults(
            SetStepOutput(so, Head(ts).step.id, Namespaced(Head(ts).step, Head(ts).result)),
            Tail(ts))

RECURSIVE StoreKeys(_, _)
\* the keys of step_outputs after the same loop
StoreKeys(order, ts) ==
    IF ts = <<>> \/ Head(ts).st = "failed" THEN order
    ELSE StoreKeys(InsertKey(order, Head(ts).step.id), Tail(ts))

RECURSIVE InputAfterStoring(_, _)
\* workflow_input after the same loop
InputAfterStoring(wi, ts) ==
    IF ts = <<>> \/ Head(ts).st = "failed" THEN wi
    ELSE InputAfterStoring(
            InputAfterSet(wi, Head(ts).step.id, Namespaced(Head(ts).step, Head(ts).result)),
            Tail(ts))

\* the coroutines of the group at top, in declaration order
GroupTasks(top) ==
    LET n == Cardinality(TasksOf(top))
    IN  [k \in 1..n |-> tasks[CHOOSE i \in TasksOf(top) : tasks[i].pos = k]]

----------------------------------------------------------------------------
(* execute_workflow *)

\* a top-level Sequential step is dispatched
ExecSequentialStep ==
    /\ AtStep
    /\ workflow[idx].step_type = "sequential"
    /\ Spawn(BeginExecuteStep(workflow[idx], idx, 0))
    /\ pc' = "await_step"
    /\ UNCHANGED <<set_calls, last_call, runs, entry, workflow, workflow_input, step_outputs, key_order, agent_cache,
                   idx, branch_steps, bidx, error>>

\* its execute_step returned or raised
StepReturns ==
    /\ entry = "execute_workflow"
    /\ pc = "await_step"
    /\ LET t == tasks[Len(tasks)]
       IN  /\ Finished(t)
           /\ IF t.st = "done"
              THEN /\ step_outputs' = SetStepOutput(step_outputs, t.step.id,
                                                    Namespaced(t.step, t.result))
                   /\ key_order' = InsertKey(key_order, t.step.id)
                   /\ workflow_input' = InputAfterSet(workflow_input, t.step.id,
                                                       Namespaced(t.step, t.result))
                   /\ Advance
                   /\ UNCHANGED error
              ELSE /\ Raise(t.exc)
                   /\ UNCHANGED <<step_outputs, key_order, workflow_input, idx>>
    /\ UNCHANGED <<set_calls, last_call, runs, entry, workflow, agent_cache, branch_steps,
                   bidx, tasks, discovered, finished>>

RECURSIVE Expand(_)
\* the nested definitions, a nested Parallel group replaced by its own steps
Expand(raws) ==
    IF raws = <<>> THEN <<>>
    ELSE (IF /\ "step_type" \in DOMAIN Head(raws)
             /\ Head(raws).step_type = "parallel"
             /\ "branches" \in DOMAIN Head(raws)
          THEN Head(raws).branches.m[W_steps]
          ELSE <<Head(raws)>>) \o Expand(Tail(raws))

\* a nested Parallel group is executed as a group of its own
ExecParallelStepDeep ==
    /\ AtStep
    /\ workflow[idx].step_type = "parallel"
    /\ LET step == workflow[idx]
       IN  IF ~Truthy(step.branches) \/ W_steps \notin DOMAIN step.branches.m
           THEN /\ Raise(Exc("ValueError", "missing_steps", step.id, NoneV))
                /\ UNCHANGED tasks
           ELSE LET raws == Expand(step.branches.m[W_steps])
                IN  IF \E i \in 1..Len(raws) : Malformed(raws[i])
                    THEN /\ Raise(Exc("ValidationError", "malformed", step.id, NoneV))
                         /\ UNCHANGED tasks
                    ELSE /\ tasks' = tasks \o [i \in 1..Len(raws) |->
                                          PendingTask(WorkflowStep(raws[i]), idx, i)]
                         /\ pc' = "gather"
                         /\ UNCHANGED error
    /\ UNCHANGED <<set_calls, last_call, runs, entry, workflow, workflow_input, step_outputs, key_order, agent_cache,
                   idx, branch_steps, bidx, discovered>>
    /\ finished' = <<>>

\* the Parallel step itself is handed to gather, as a plain step
ExecParallelStepOwn ==
    /\ AtStep
    /\ workflow[idx].step_type = "parallel"
    /\ tasks' = Append(tasks, PendingTask(workflow[idx], idx, 1))
    /\ pc' = "gather"
    /\ UNCHANGED <<set_calls, last_call, runs, entry, workflow, workflow_input, step_outputs, key_order, agent_cache,
                   idx, branch_steps, bidx, discovered, error>>
    /\ finished' = <<>>

\* a top-level Parallel step: the nested definitions are turned into steps
\* and execute_parallel_steps hands their coroutines to gather
ExecParallelStep ==
    /\ AtStep
    /\ workflow[idx].step_type = "parallel"
    /\ LET step == workflow[idx]
       IN  IF ~Truthy(step.branches) \/ W_steps \notin DOMAIN step.branches.m
           THEN /\ Raise(Exc("ValueError", "missing_steps", step.id, NoneV))
                /\ UNCHANGED tasks
           ELSE LET raws == step.branches.m[W_steps]
                IN  IF \E i \in 1..Len(raws) : Malformed(raws[i])
                    THEN /\ Raise(Exc("ValidationError", "malformed", step.id, NoneV))
                         /\ UNCHANGED tasks
                    ELSE /\ tasks' = tasks \o [i \in 1..Len(raws) |->
                                          PendingTask(WorkflowStep(raws[i]), idx, i)]
                         /\ pc' = "gather"
                         /\ UNCHANGED error
    /\ UNCHANGED <<set_calls, last_call, runs, entry, workflow, workflow_input, step_outputs, key_order, agent_cache,
                   idx, branch_steps, bidx, discovered>>
    /\ finished' = <<>>

\* gather is done: the results are stored in declaration order, up to the
\* first exception, which is raised
GatherReturns ==
    /\ pc = "gather"
    /\ GatherDone(idx)
    /\ LET ts == GroupTasks(idx)
           failed == {k \in 1..Len(ts) : ts[k].st = "failed"}
       IN  /\ step_outputs' = StoreResults(step_outputs, ts)
           /\ key_order' = StoreKeys(key_order, ts)
           /\ workflow_input' = InputAfterStoring(workflow_input, ts)
           /\ IF failed = {}
              THEN Advance /\ UNCHANGED error
              ELSE LET f == CHOOSE k \in failed : \A j \in failed : k <= j
                   IN  /\ Raise(Exc("RuntimeError", "failed", ts[f].step.id, ts[f].exc))
                       /\ UNCHANGED idx
    /\ UNCHANGED <<set_calls, last_call, runs, entry, workflow, agent_cache, branch_steps,
                   bidx, tasks, discovered, finished>>

\* a step of an unknown pattern is skipped
UnknownStepTypeSkipped ==
    /\ AtStep
    /\ workflow[idx].step_type \notin StepTypes
    /\ Advance
    /\ UNCHANGED <<set_calls, last_call, runs, entry, workflow, workflow_input, step_outputs, key_order, agent_cache,
                   branch_steps, bidx, tasks, discovered, finished, error>>

\* a step whose step_type is none of the four patterns
UnknownStepType ==
    /\ AtStep
    /\ workflow[idx].step_type \notin StepTypes
    /\ Raise(Exc("ValueError", "unknown_type", workflow[idx].id, NoneV))
    /\ UNCHANGED <<set_calls, last_call, runs, entry, workflow, workflow_input, step_outputs, key_order, agent_cache,
                   idx, branch_steps, bidx, tasks, discovered, finished>>

\* the loop over the selected branch is entered
EnterBranch(selected) ==
    /\ branch_steps' = selected
    /\ bidx' = 1
    /\ pc' = "branch"

\* the branch is selected by `condition_result is True`, not by truthiness
ConditionalSelectIsTrue(step, condition_result) ==
    IF condition_result.t = "raise"
    THEN /\ Raise(Exc(condition_result.exc, "resolve", step.id, NoneV))
         /\ UNCHANGED <<branch_steps, bidx>>
    ELSE /\ EnterBranch(IF condition_result = PyBool(TRUE)
                        THEN Get(step.branches, W_if_true, <<>>)
                        ELSE Get(step.branches, W_if_false, <<>>))
         /\ UNCHANGED error

\* every nested definition of every branch is validated before the branch
\* is selected
ConditionalSelectValidated(step, condition_result) ==
    IF condition_result.t = "raise"
    THEN /\ Raise(Exc(condition_result.exc, "resolve", step.id, NoneV))
         /\ UNCHANGED <<branch_steps, bidx>>
    ELSE IF \E key \in DOMAIN step.branches.m :
               \E p \in 1..Len(step.branches.m[key]) : Malformed(step.branches.m[key][p])
    THEN /\ Raise(Exc("ValidationError", "malformed", step.id, NoneV))
         /\ UNCHANGED <<branch_steps, bidx>>
    ELSE /\ EnterBranch(IF Truthy(condition_result)
                        THEN Get(step.branches, W_if_true, <<>>)
                        ELSE Get(step.branches, W_if_false, <<>>))
         /\ UNCHANGED error

\* execute_conditional_step, from the value of the condition on
ConditionalSelect(step, condition_result) ==
    IF condition_result.t = "raise"
    THEN /\ Raise(Exc(condition_result.exc, "resolve", step.id, NoneV))
         /\ UNCHANGED <<branch_steps, bidx>>
    ELSE /\ EnterBranch(IF Truthy(condition_result)
                        THEN Get(step.branches, W_if_true, <<>>)
                        ELSE Get(step.branches, W_if_false, <<>>))
         /\ UNCHANGED error

\* the condition is evaluated before branches is looked at
ExecConditionalStepEvalFirst ==
    /\ AtStep
    /\ workflow[idx].step_type = "conditional"
    /\ IF ~Truthy(workflow[idx].condition)
       THEN /\ Raise(Exc("ValueError", "missing_condition", workflow[idx].id, NoneV))
            /\ UNCHANGED <<branch_steps, bidx>>
       ELSE ConditionalSelect(workflow[idx],
                ResolveExpression(workflow[idx].condition, workflow_input, step_outputs))
    /\ UNCHANGED <<set_calls, last_call, runs, entry, workflow, workflow_input, step_outputs, key_order, agent_cache,
                   idx, tasks, discovered, finished>>

\* execute_conditional_step, up to the selection of the branch
ExecConditionalStep ==
    /\ AtStep
    /\ workflow[idx].step_type = "conditional"
    /\ IF ~Truthy(workflow[idx].condition)
       THEN /\ Raise(Exc("ValueError", "missing_condition", workflow[idx].id, NoneV))
            /\ UNCHANGED <<branch_steps, bidx>>
       ELSE IF ~Truthy(workflow[idx].branches)
       THEN /\ Raise(Exc("ValueError", "missing_branches", workflow[idx].id, NoneV))
            /\ UNCHANGED <<branch_steps, bidx>>
       ELSE ConditionalSelect(workflow[idx],
                ResolveExpression(workflow[idx].condition, workflow_input, step_outputs))
    /\ UNCHANGED <<set_calls, last_call, runs, entry, workflow, workflow_input, step_outputs, key_order, agent_cache,
                   idx, tasks, discovered, finished>>

\* `branches.get(matched_case) or branches.get("default", [])`
SwitchBranch(branches, matched_case) ==
    IF Get(branches, matched_case, <<>>) # <<>>
    THEN Get(branches, matched_case, <<>>)
    ELSE Get(branches, W_default, <<>>)

\* an empty selection is reported as an error
SwitchEnterStrict(selected) ==
    IF selected = <<>>
    THEN /\ Raise(Exc("ValueError", "no_case", workflow[idx].id, NoneV))
         /\ UNCHANGED <<branch_steps, bidx, idx>>
    ELSE /\ EnterBranch(selected)
         /\ UNCHANGED <<error, idx>>

\* execute_switch_step, from the selected branch on: an empty selection
\* returns at once
SwitchEnter(selected) ==
    IF selected = <<>>
    THEN /\ Advance
         /\ UNCHANGED <<branch_steps, bidx, error>>
    ELSE /\ EnterBranch(selected)
         /\ UNCHANGED <<error, idx>>

\* execute_switch_step, from the value of the expression on
SwitchSelect(step, switch_value) ==
    IF switch_value.t = "raise"
    THEN /\ Raise(Exc(switch_value.exc, "resolve", step.id, NoneV))
         /\ UNCHANGED <<branch_steps, bidx, idx>>
    ELSE SwitchEnter(SwitchBranch(step.branches, PyStrOf(switch_value)))

\* execute_switch_step, up to the selection of the branch
ExecSwitchStep ==
    /\ AtStep
    /\ workflow[idx].step_type = "switch"
    /\ IF ~Truthy(workflow[idx].condition)
       THEN /\ Raise(Exc("ValueError", "missing_condition", workflow[idx].id, NoneV))
            /\ UNCHANGED <<branch_steps, bidx, idx>>
       ELSE IF ~Truthy(workflow[idx].branches)
       THEN /\ Raise(Exc("ValueError", "missing_branches", workflow[idx].id, NoneV))
            /\ UNCHANGED <<branch_steps, bidx, idx>>
       ELSE SwitchSelect(workflow[idx],
                ResolveExpression(workflow[idx].condition, workflow_input, step_outputs))
    /\ UNCHANGED <<set_calls, last_call, runs, entry, workflow, workflow_input, step_outputs, key_order, agent_cache,
                   tasks, discovered, finished>>

\* the loop over the selected branch of a Conditional or Switch step: the
\* next raw definition is turned into a step and dispatched, or the loop ends
BranchStepBegin ==
    /\ pc = "branch"
    /\ IF bidx > Len(branch_steps)
       THEN /\ Advance
            /\ UNCHANGED <<tasks, discovered, finished, error>>
       ELSE IF Malformed(branch_steps[bidx])
       THEN /\ Raise(Exc("ValidationError", "malformed", workflow[idx].id, NoneV))
            /\ UNCHANGED <<tasks, discovered, finished, idx>>
       ELSE /\ Spawn(BeginExecuteStep(WorkflowStep(branch_steps[bidx]), idx, bidx))
            /\ pc' = "await_branch"
            /\ UNCHANGED <<idx, error>>
    /\ UNCHANGED <<set_calls, last_call, runs, entry, workflow, workflow_input, step_outputs, key_order, agent_cache,
                   branch_steps, bidx>>

\* execute_step of a branch step returned or raised
BranchStepReturns ==
    /\ pc = "await_branch"
    /\ LET t == tasks[Len(tasks)]
       IN  /\ Finished(t)
           /\ IF t.st = "done"
              THEN /\ step_outputs' = SetStepOutput(step_outputs, t.step.id, t.result)
                   /\ key_order' = InsertKey(key_order, t.step.id)
                   /\ workflow_input' = InputAfterSet(workflow_input, t.step.id, t.result)
                   /\ bidx' = bidx + 1
                   /\ pc' = "branch"
                   /\ UNCHANGED error
              ELSE /\ Raise(t.exc)
                   /\ UNCHANGED <<step_outputs, key_order, workflow_input, bidx>>
    /\ UNCHANGED <<set_calls, last_call, runs, entry, workflow, agent_cache, idx,
                   branch_steps, tasks, discovered, finished>>

----------------------------------------------------------------------------
(* execute_sequential_steps *)

SequentialStepsBegin ==
    /\ entry = "execute_sequential_steps"
    /\ pc = "loop"
    /\ idx <= Len(workflow)
    /\ Spawn(BeginExecuteStep(workflow[idx], idx, 0))
    /\ pc' = "await_step"
    /\ UNCHANGED <<set_calls, last_call, runs, entry, workflow, workflow_input, step_outputs, key_order, agent_cache,
                   idx, branch_steps, bidx, error>>

SequentialStepsReturns ==
    /\ entry = "execute_sequential_steps"
    /\ pc = "await_step"
    /\ LET t == tasks[Len(tasks)]
       IN  /\ Finished(t)
           /\ IF t.st = "done"
              THEN /\ step_outputs' = SetStepOutput(step_outputs, t.step.id,
                                                    Namespaced(t.step, t.result))
                   /\ key_order' = InsertKey(key_order, t.step.id)
                   /\ workflow_input' = InputAfterSet(workflow_input, t.step.id,
                                                       Namespaced(t.step, t.result))
                   /\ Advance
                   /\ UNCHANGED error
              ELSE /\ Raise(t.exc)
                   /\ UNCHANGED <<step_outputs, key_order, workflow_input, idx>>
    /\ UNCHANGED <<set_calls, last_call, runs, entry, workflow, agent_cache, branch_steps,
                   bidx, tasks, discovered, finished>>

----------------------------------------------------------------------------
(* The coroutines of execute_step and the collaborators they wait for *)

\* coroutine i becomes t
Resume(i, t) ==
    /\ tasks' = [tasks EXCEPT ![i] = t]
    /\ discovered' = IF t.st = "discovering" /\ tasks[i].st = "pending"
                     THEN Append(discovered, t.step.skill)
                     ELSE discovered
    /\ finished' = IF Finished(t) /\ ~Finished(tasks[i]) THEN Append(finished, i) ELSE finished

\* coroutine i is the next one the event loop runs
CanStart(i) == tasks[i].st = "pending" /\ TaskRunnable(i)

\* the event loop runs coroutine i of a gather up to its first suspension
StartTask(i) ==
    /\ CanStart(i)
    /\ Resume(i, BeginExecuteStep(tasks[i].step, tasks[i].top, tasks[i].pos))
    /\ UNCHANGED <<set_calls, last_call, runs, entry, workflow, workflow_input, step_outputs, key_order, agent_cache,
                   pc, idx, branch_steps, bidx, error>>

\* `self.agent_cache[skill_id] = agent_url`, reached when agent_url is truthy
CacheAgent(cache, skill, agent_url) ==
    IF Truthy(agent_url)
    THEN [k \in DOMAIN cache \cup {skill} |-> IF k = skill THEN agent_url ELSE cache[k]]
    ELSE cache

\* the executor returns from discover_agent
DiscoveryReturns(i) ==
    /\ tasks[i].st = "discovering"
    /\ AllStarted(tasks[i].top)
    /\ Resume(i, EndDiscovery(tasks[i], DiscoverAgent(tasks[i].step.skill)))
    /\ agent_cache' = CacheAgent(agent_cache, tasks[i].step.skill,
                                 DiscoverAgent(tasks[i].step.skill))
    /\ UNCHANGED <<set_calls, last_call, runs, entry, workflow, workflow_input, step_outputs, key_order, pc, idx,
                   branch_steps, bidx, error>>

\* the agent answers, or the request fails
InvokeReturns(i, response) ==
    /\ tasks[i].st = "inflight"
    /\ AllStarted(tasks[i].top)
    /\ Resume(i, EndExecuteStep(tasks[i], response))
    /\ step_outputs' = ContextAfterStep(step_outputs, EndExecuteStep(tasks[i], response))
    /\ UNCHANGED key_order
    /\ UNCHANGED <<set_calls, last_call, runs, entry, workflow, workflow_input, agent_cache,
                   pc, idx, branch_steps, bidx, error>>

\* orchestrator._extract_final_output, called by execute_workflow_by_id on
\* the Context that execute_workflow returned: order is list(step_outputs.keys())
ExtractFinalOutput(so, order) ==
    IF DOMAIN so = {} THEN EmptyDict
    ELSE Get(so[order[Len(order)]], W_outputs, EmptyDict)

Next ==
    \/ ExecSequentialStep
    \/ StepReturns
    \/ ExecParallelStep
    \/ GatherReturns
    \/ ExecConditionalStep
    \/ ExecSwitchStep
    \/ BranchStepBegin
    \/ BranchStepReturns
    \/ UnknownStepType
    \/ SequentialStepsBegin
    \/ SequentialStepsReturns
    \/ \E i \in 1..Len(tasks) : StartTask(i)
    \/ \E i \in 1..Len(tasks) : DiscoveryReturns(i)
    \/ \E i \in 1..Len(tasks), response \in Responses : InvokeReturns(i, response)

Spec == Init /\ [][Next]_vars

\* the engine called with a workflow of EdgeRuns
EdgeInit ==
    /\ \E r \in EdgeRuns :
          /\ entry = r.entry
          /\ workflow = r.steps
          /\ workflow_input = r.input
    /\ step_outputs = <<>>
    /\ agent_cache = <<>>
    /\ pc = "loop"
    /\ idx = 1
    /\ branch_steps = <<>>
    /\ bidx = 1
    /\ tasks = <<>>
    /\ discovered = <<>>
    /\ finished = <<>>
    /\ error = NoneV
    /\ key_order = <<>>
    /\ set_calls = <<>>
    /\ last_call = NoCall
    /\ runs = <<>>

EdgeSpec == EdgeInit /\ [][Next]_vars

\* the call is over: `return context`, or the exception has left the call
Halted == pc \in {"returned", "raised"}

\* the executor returns from every discover_agent it was handed, and every
\* request that was sent is answered or fails (the client of call_agent_skill
\* bounds it by the timeout of the step); the event loop runs every coroutine that is ready,
\* which is weak fairness of Next, written out: a step is possible exactly
\* as long as the call is not over
FairSpec ==
    /\ Spec
    /\ WF_vars(\E i \in 1..Len(tasks) : DiscoveryReturns(i))
    /\ WF_vars(\E i \in 1..Len(tasks), response \in Responses : InvokeReturns(i, response))
    /\ []<>Halted \/ []<><<Next>>_vars

----------------------------------------------------------------------------
(* The WorkflowContext called directly: set_step_output, resolve_expression
   and resolve_inputs applied to a Context in any order *)

\* number of set_step_output calls made on the Context
MaxCalls == 2

Open == <<"{", "{">>
Close == <<"}", "}">>

\* "{{ workflow.input.<rest> }}" and "{{ steps.<id>.outputs.<rest> }}" with
\* the keys used below
InK == Tpl(<<W_workflow, W_input, <<"k">> >>)
InAB == Tpl(<<W_workflow, W_input, <<"a">>, <<"b">> >>)
StepXY == StepRef(<<"x">>, << <<"y">> >>)

\* the initial inputs of the Contexts
ContextInputs ==
    {PyDict((<<"a">> :> PyDict(<<"b">> :> PyInt(7))) @@ (<<"k">> :> PyStr(<<"v">>))),
     EmptyDict}

\* the arguments of set_step_output
CalledIds == {<<"x">>, <<"y">>}
CalledOutputs ==
    {PyDict(<<"y">> :> PyStr(<<"v">>)),
     PyDict(<<"y">> :> PyDict(<<"z">> :> PyInt(1)))}

\* values that are not strings
NonStrings ==
    {PyInt(42), PyBool(TRUE), NoneV, PyList(<<PyInt(1), InK>>), PyDict(<<"k">> :> InK)}

\* strings that are no template: plain text, the empty string, partial
\* templates, single braces, a template after other text
Literals ==
    {PyStr(<<"p", "l", "a", "i", "n">>),
     PyStr(<<>>),
     PyStr(<<"t", " ">> \o Open \o <<" ", "i">>),
     PyStr(Open),
     PyStr(Open \o <<" ", "x">>),
     PyStr(<<"{", " ", "x", " ", "}">>),
     PyStr(<<"t", " ">> \o InK.s)}

\* a template followed by other text, and two templates in a row
Followed ==
    {PyStr(InK.s \o <<" ", "t">>),
     PyStr(InK.s \o InAB.s)}

\* "{{}}", "{{ }}" and "{{  }}"
EmptyTemplates ==
    {PyStr(Open \o Close),
     PyStr(Open \o <<" ">> \o Close),
     PyStr(Open \o <<" ", " ">> \o Close)}

\* templates whose path has none of the two recognized forms
OtherRoots ==
    {Tpl(<<W_workflow>>),
     Tpl(<<W_steps>>),
     Tpl(<< <<"i", "n", "v">>, <<"p">> >>),
     Tpl(<<W_workflow, <<"o">>, <<"k">> >>),
     Tpl(<<W_input, <<"k">> >>),
     Tpl(<<W_steps, <<"x">> >>),
     Tpl(<<W_steps, <<"x">>, <<"o">>, <<"y">> >>)}

\* templates on the workflow input, with and without whitespace
InputTemplates ==
    {InK,
     InAB,
     PyStr(Open \o Join(<<W_workflow, W_input, <<"k">> >>) \o Close),
     PyStr(<<" ", " ">> \o Open \o <<" ", " ", " ">>
             \o Join(<<W_workflow, W_input, <<"k">> >>) \o <<" ", " ">> \o Close \o <<" ">>),
     Tpl(<<W_workflow, W_input, <<"a">> >>),
     Tpl(<<W_workflow, W_input, <<"a">>, <<"b">>, <<"c">> >>),
     Tpl(<<W_workflow, W_input, <<"a">>, <<"m">> >>),
     Tpl(<<W_workflow, W_input, <<"m">> >>),
     Tpl(<<W_workflow, W_input, <<"k">>, <<"b">> >>)}

\* templates on the step outputs
StepTemplates ==
    {StepXY,
     StepRef(<<"x">>, <<>>),
     StepRef(<<"x">>, << <<"y">>, <<"z">> >>),
     StepRef(<<"x">>, << <<"m">> >>),
     StepRef(<<"y">>, << <<"y">> >>),
     StepRef(<<"q">>, << <<"y">> >>)}

Expressions ==
    NonStrings \cup Literals \cup Followed \cup EmptyTemplates \cup OtherRoots
        \cup InputTemplates \cup StepTemplates

\* the arguments of resolve_inputs
InputMappings ==
    {EmptyDict,
     PyDict((<<"s">> :> InK)
         @@ (<<"n">> :> PyInt(42))
         @@ (<<"d">> :> PyDict((<<"t">> :> InAB) @@ (<<"u">> :> PyStr(<<"u">>))))
         @@ (<<"l">> :> PyList(<<InK, PyInt(42), PyDict(<<"t">> :> InK), PyList(<<InK>>)>>))),
     PyDict((<<"x">> :> StepXY) @@ (<<"l">> :> PyList(<<>>)) @@ (<<"b">> :> PyBool(FALSE))),
     PyDict(<<"d">> :> PyDict(<<"d">> :> PyDict((<<"s">> :> StepXY) @@ (<<"l">> :> PyList(<<StepXY>>))))),
     PyDict((<<"s">> :> InK) @@ (<<"e">> :> Tpl(<<W_steps>>)))}

ContextInit ==
    /\ entry = "context"
    /\ workflow = <<>>
    /\ workflow_input \in ContextInputs
    /\ step_outputs = <<>>
    /\ key_order = <<>>
    /\ set_calls = <<>>
    /\ last_call = NoCall
    /\ agent_cache = <<>>
    /\ pc = "idle"
    /\ idx = 1
    /\ branch_steps = <<>>
    /\ bidx = 1
    /\ tasks = <<>>
    /\ discovered = <<>>
    /\ finished = <<>>
    /\ error = NoneV
    /\ runs = <<>>

\* what the engine owns is not touched by a call on the Context
EngineUnchanged ==
    UNCHANGED <<entry, workflow, agent_cache, pc, idx, branch_steps, bidx, tasks,
                discovered, finished, error, runs>>

\* context.set_step_output(step_id, output)
SetStepOutputCall(step_id, output) ==
    /\ Len(set_calls) < MaxCalls
    /\ step_outputs' = SetStepOutput(step_outputs, step_id, output)
    /\ key_order' = InsertKey(key_order, step_id)
    /\ workflow_input' = InputAfterSet(workflow_input, step_id, output)
    /\ set_calls' = Append(set_calls, [step_id |-> step_id, output |-> output])
    /\ last_call' = NoCall
    /\ EngineUnchanged

\* a resolver call leaves an empty record under the id `q` (a memo of the
\* lookup)
ContextAfterReadMemo(so, arg) == SetStepOutput(so, <<"q">>, EmptyDict)

\* resolve_expression and resolve_inputs assign nothing of the Context
ContextAfterRead(so, arg) == so

\* context.resolve_expression(expression)
ResolveExpressionCall(expression) ==
    /\ last_call' = [method |-> "resolve_expression",
                     arg    |-> expression,
                     ret    |-> ResolveExpression(expression, workflow_input, step_outputs)]
    /\ step_outputs' = ContextAfterRead(step_outputs, expression)
    /\ UNCHANGED <<workflow_input, key_order, set_calls>>
    /\ EngineUnchanged

\* the values of the mapping are resolved in place
InputsAfterResolveInPlace(inputs, resolved) ==
    IF resolved.t = "raise" THEN inputs ELSE resolved

\* resolve_inputs fills a new dict and leaves its argument as it is
InputsAfterResolve(inputs, resolved) == inputs

\* context.resolve_inputs(inputs)
ResolveInputsCall(inputs) ==
    /\ last_call' = [method |-> "resolve_inputs",
                     arg    |-> inputs,
                     after  |-> InputsAfterResolve(inputs,
                                   ResolveInputs(inputs, workflow_input, step_outputs)),
                     ret    |-> ResolveInputs(inputs, workflow_input, step_outputs)]
    /\ step_outputs' = ContextAfterRead(step_outputs, inputs)
    /\ UNCHANGED <<workflow_input, key_order, set_calls>>
    /\ EngineUnchanged

ContextNext ==
    \/ \E step_id \in CalledIds, output \in CalledOutputs : SetStepOutputCall(step_id, output)
    \/ \E expression \in Expressions : ResolveExpressionCall(expression)
    \/ \E inputs \in InputMappings : ResolveInputsCall(inputs)

ContextSpec == ContextInit /\ [][ContextNext]_vars

----------------------------------------------------------------------------
(* Two execute_workflow calls in flight at once on one engine: each call has
   its workflow, its input and the Context it created; agent_cache belongs
   to the engine and is shared *)

RunIds == {1, 2}

\* the workflows and inputs of the two calls: the same workflow twice, and a
\* second workflow whose first step reads the output of a step `a` that only
\* the first workflow has
ConcurrentRuns ==
    {<<Run("execute_workflow", <<StepA, StepB>>, InputTrue),
       Run("execute_workflow", <<StepA, StepB>>, InputFalse)>>,
     <<Run("execute_workflow", <<StepA, StepB>>, InputTrue),
       Run("execute_workflow", <<StepB, StepC>>, InputFalse)>>}

\* execute_workflow, on entry: `context = WorkflowContext(workflow_input)`
NewRun(r) ==
    [workflow       |-> r.steps,
     workflow_input |-> r.input,
     step_outputs   |-> <<>>,
     idx            |-> 1,
     pc             |-> "loop",
     task           |-> PendingTask(r.steps[1], 1, 0),
     sent           |-> <<>>,
     got            |-> <<>>]

TwoRunsInit ==
    /\ runs \in {[r \in RunIds |-> NewRun(pair[r])] : pair \in ConcurrentRuns}
    /\ agent_cache = <<>>
    /\ entry = "concurrent"
    /\ workflow = <<>>
    /\ workflow_input = EmptyDict
    /\ step_outputs = <<>>
    /\ key_order = <<>>
    /\ set_calls = <<>>
    /\ last_call = NoCall
    /\ pc = "idle"
    /\ idx = 1
    /\ branch_steps = <<>>
    /\ bidx = 1
    /\ tasks = <<>>
    /\ discovered = <<>>
    /\ finished = <<>>
    /\ error = NoneV

\* what belongs to a single call of the other specifications
SingleUnchanged ==
    UNCHANGED <<entry, workflow, workflow_input, step_outputs, key_order, set_calls,
                last_call, pc, idx, branch_steps, bidx, tasks, discovered, finished, error>>

\* every call works on the Context of the first call
ContextOfShared(r) == 1

\* the Context that call r reads and writes: the one it created on entry
ContextOf(r) == r

\* execute_step of call r up to its first suspension, its inputs resolved
\* against the Context of the call
RunBeginStep(r, params) ==
    Dispatch(PendingTask(runs[r].workflow[runs[r].idx], runs[r].idx, 0), params)

\* call r dispatches its next top-level step
RunStepBegins(r) ==
    /\ runs[r].pc = "loop"
    /\ runs' = [runs EXCEPT
          ![r].task = RunBeginStep(r,
                         ResolveInputs(runs[r].workflow[runs[r].idx].inputs,
                                       runs[r].workflow_input,
                                       runs[ContextOf(r)].step_outputs)),
          ![r].sent = Append(runs[r].sent,
                         ResolveInputs(runs[r].workflow[runs[r].idx].inputs,
                                       runs[r].workflow_input,
                                       runs[ContextOf(r)].step_outputs)),
          ![r].pc = "await_step"]
    /\ UNCHANGED agent_cache
    /\ SingleUnchanged

\* the executor returns from the discover_agent of call r
RunDiscoveryReturns(r) ==
    /\ runs[r].pc = "await_step"
    /\ runs[r].task.st = "discovering"
    /\ runs' = [runs EXCEPT
          ![r].task = EndDiscovery(runs[r].task, DiscoverAgent(runs[r].task.step.skill))]
    /\ agent_cache' = CacheAgent(agent_cache, runs[r].task.step.skill,
                                 DiscoverAgent(runs[r].task.step.skill))
    /\ SingleUnchanged

\* the agent answers the request of call r, or the request fails
RunInvokeReturns(r, response) ==
    /\ runs[r].pc = "await_step"
    /\ runs[r].task.st = "inflight"
    /\ runs' = [runs EXCEPT ![r].task = EndExecuteStep(runs[r].task, response)]
    /\ UNCHANGED agent_cache
    /\ SingleUnchanged

\* the Contexts after call r stored the result of its step
StoredBy(r) ==
    [runs EXCEPT
        ![ContextOf(r)].step_outputs =
            SetStepOutput(runs[ContextOf(r)].step_outputs, runs[r].task.step.id,
                          Namespaced(runs[r].task.step, runs[r].task.result))]

\* call r after its step at idx is over
AdvancedBy(r) ==
    [runs[r] EXCEPT
        !.got = Append(runs[r].got, runs[r].task.result),
        !.idx = runs[r].idx + 1,
        !.pc  = IF runs[r].idx + 1 > Len(runs[r].workflow) THEN "returned" ELSE "loop"]

\* the execute_step of call r returned or raised
RunStepReturns(r) ==
    /\ runs[r].pc = "await_step"
    /\ Finished(runs[r].task)
    /\ runs' = IF runs[r].task.st = "done"
               THEN [StoredBy(r) EXCEPT
                        ![r] = [AdvancedBy(r) EXCEPT
                                   !.step_outputs = StoredBy(r)[r].step_outputs]]
               ELSE [runs EXCEPT ![r].pc = "raised"]
    /\ UNCHANGED agent_cache
    /\ SingleUnchanged

TwoRunsNext ==
    \/ \E r \in RunIds : RunStepBegins(r)
    \/ \E r \in RunIds : RunDiscoveryReturns(r)
    \/ \E r \in RunIds, response \in Responses : RunInvokeReturns(r, response)
    \/ \E r \in RunIds : RunStepReturns(r)

TwoRunsSpec == TwoRunsInit /\ [][TwoRunsNext]_vars

----------------------------------------------------------------------------
(* Properties *)

TaskIds == 1..Len(tasks)

\* task i runs a nested step of a Parallel group
InGroup(i) ==
    /\ entry = "execute_workflow"
    /\ workflow[tasks[i].top].step_type = "parallel"

\* task i runs a step of a Conditional or Switch branch
InBranch(i) ==
    /\ entry = "execute_workflow"
    /\ workflow[tasks[i].top].step_type \in {"conditional", "switch"}

\* the remote invocation of task i has been issued
Invoked(i) == tasks[i].sent >= 1

\* C1: the top-level steps are processed in declaration order and one at a
\* time: no remote invocation that belongs to a top-level step is issued
\* before every coroutine of the top-level steps declared before it has
\* finished; the nested steps of two Parallel groups never overlap.
C1_TopLevelOneAtATime ==
    /\ \A i, j \in TaskIds : i < j => tasks[i].top <= tasks[j].top
    /\ \A i, j \in TaskIds :
          (tasks[i].top < tasks[j].top /\ tasks[j].st # "pending") => Finished(tasks[i])

\* two Parallel groups in a row, the second one with an invocation in flight
C1_Witness ==
    \E i, j \in TaskIds :
        /\ InGroup(i) /\ InGroup(j)
        /\ tasks[i].top < tasks[j].top
        /\ tasks[i].st = "done"
        /\ tasks[j].st = "inflight"

\* the value a step list executed one at a time records for task i
Recorded(i) ==
    PyDict(W_outputs :>
        IF InBranch(i) THEN tasks[i].result
        ELSE IF Truthy(tasks[i].step.outputs)
             THEN PyDict(tasks[i].step.outputs.s :> tasks[i].result)
             ELSE tasks[i].result)

\* the path of the template v, when v is a template that reads step id
RefPath(v) == Split(TemplateMatch(Strip(v.s)).g)

RefersTo(v, id) ==
    /\ v.t = "str"
    /\ TemplateMatch(Strip(v.s)).ok
    /\ Len(RefPath(v)) >= 2
    /\ RefPath(v)[1] = W_steps
    /\ RefPath(v)[2] = id

\* tasks i and j run consecutive steps of one list executed one at a time
Consecutive(i, j) ==
    /\ j = i + 1
    /\ ~InGroup(i) /\ ~InGroup(j)
    /\ \/ tasks[i].top = tasks[j].top /\ tasks[j].pos = tasks[i].pos + 1
       \/ tasks[j].top = tasks[i].top + 1 /\ tasks[i].pos = 0 /\ tasks[j].pos = 0

\* C2: in a step list executed one at a time (top level, execute_sequential_steps,
\* the selected branch of a Conditional or Switch step) a step is dispatched
\* only when the step before it has completed, and an input that is a
\* template on the output of the step before it is sent with the value found
\* at that path in what the step before it returned and recorded.
C2_SequentialDataFlow ==
    \A i, j \in TaskIds :
        Consecutive(i, j) =>
            /\ tasks[i].st = "done"
            /\ tasks[i].step.id \in DOMAIN step_outputs
            /\ tasks[j].params.t = "dict" =>
                  \A x \in DOMAIN tasks[j].step.inputs.m :
                      RefersTo(tasks[j].step.inputs.m[x], tasks[i].step.id) =>
                          tasks[j].params.m[x] =
                              Navigate(Recorded(i),
                                       SubSeq(RefPath(tasks[j].step.inputs.m[x]), 3,
                                              Len(RefPath(tasks[j].step.inputs.m[x]))))

\* a branch step and a top-level step were each sent the value returned by
\* the step before them
C2_Witness ==
    \E i, j \in TaskIds :
        /\ Consecutive(i, j)
        /\ tasks[j].st = "inflight"
        /\ \E x \in DOMAIN tasks[j].step.inputs.m :
              /\ RefersTo(tasks[j].step.inputs.m[x], tasks[i].step.id)
              /\ tasks[j].params.m[x] \in {PyInt(n) : n \in 1..MaxResults} \cup Results

\* some step has failed
Failure == \E i \in TaskIds : tasks[i].st = "failed"

\* the step just taken issues the remote invocation of task j
StartsInvocation(j) ==
    tasks'[j].sent > (IF j <= Len(tasks) THEN tasks[j].sent ELSE 0)

\* the entries of step_outputs are kept as they are by the step just taken
EntriesKept ==
    \A id \in DOMAIN step_outputs :
        id \in DOMAIN step_outputs' /\ step_outputs'[id] = step_outputs[id]

\* task j is a nested step of the Parallel group the engine is waiting for,
\* and a nested step of that group has failed
SiblingOfFailure(j) ==
    /\ j <= Len(tasks)
    /\ InGroup(j)
    /\ pc = "gather"
    /\ tasks[j].top = idx
    /\ \E f \in TasksOf(idx) : tasks[f].st = "failed"

\* C3 as stated: once a step has failed, at any depth, no remote invocation
\* is started any more, the call does not return a Context, and the entries
\* recorded in step_outputs stay as they are.
C3_Original ==
    [][Failure =>
          /\ \A j \in 1..Len(tasks') : ~StartsInvocation(j)
          /\ pc' # "returned"
          /\ EntriesKept]_vars

\* C3 amended: once a step has failed, at any depth, no further step is
\* dispatched and the call can only raise; the only remote invocations still
\* started are those of the siblings of a failed nested step, in the Parallel
\* group the engine is waiting for; the entries recorded in step_outputs stay
\* as they are.
C3_AbortOnFailure ==
    [][Failure =>
          /\ Len(tasks') = Len(tasks)
          /\ \A j \in 1..Len(tasks') : StartsInvocation(j) => SiblingOfFailure(j)
          /\ pc' \in {pc, "raised"}
          /\ EntriesKept]_vars

\* a Parallel group has failed after an earlier step was recorded, and the
\* call has raised
C3_Witness ==
    /\ pc = "raised"
    /\ step_outputs # <<>>
    /\ \E i \in TaskIds : InGroup(i) /\ tasks[i].st = "failed" /\ Invoked(i)
    /\ \E i \in TaskIds : InGroup(i) /\ tasks[i].st = "done"

\* C4: no retry: the remote invocation of a step is issued at most once, and
\* a step is handed to execute_step at most once, whatever the outcome.
C4_NoRetry ==
    /\ \A i \in TaskIds : tasks[i].sent <= 1
    /\ \A i, j \in TaskIds :
          (tasks[i].top = tasks[j].top /\ tasks[i].pos = tasks[j].pos) => i = j

\* two invocations failed, one by a timeout and one by an error payload
C4_Witness ==
    \E i, j \in TaskIds :
        /\ tasks[i].st = "failed" /\ tasks[i].sent = 1
        /\ tasks[i].exc.cause = Raised("httpx.TimeoutException")
        /\ tasks[j].st = "failed" /\ tasks[j].sent = 1
        /\ tasks[j].exc.cause = Raised("RuntimeError")

\* C5: fan-in barrier: as long as a nested step of a Parallel group has not
\* finished, the engine is waiting in the gather of that group: it has neither
\* moved to another top-level step nor returned nor raised.
C5_FanInBarrier ==
    \A i \in TaskIds :
        (InGroup(i) /\ ~Finished(tasks[i])) => (pc = "gather" /\ idx = tasks[i].top)

\* a nested step has failed while a sibling is still in flight
C5_Witness ==
    /\ pc = "gather"
    /\ \E i, j \in TasksOf(idx) :
          tasks[i].st = "failed" /\ tasks[j].st = "inflight"

\* no coroutine of the group the engine is waiting for is still to be started
\* before task i
EarlierStarted(i) ==
    \A j \in TasksOf(tasks[i].top) : j < i => tasks[j].st # "pending"

\* C6: fan-out: while the engine waits in gather, a nested step never waits
\* for a sibling to complete: it is started as soon as the siblings declared
\* before it have been started, and once all are started its discovery and
\* its invocation can return whatever the state of its siblings.
C6_FanOut ==
    \A i \in TaskIds :
        (InGroup(i) /\ pc = "gather" /\ tasks[i].top = idx) =>
            /\ (tasks[i].st = "pending" /\ EarlierStarted(i)) => CanStart(i)
            /\ (tasks[i].st = "discovering" /\ AllStarted(idx)) => ENABLED DiscoveryReturns(i)
            /\ (tasks[i].st = "inflight" /\ AllStarted(idx)) =>
                  \A response \in Responses : ENABLED InvokeReturns(i, response)

\* two siblings were in flight at once and the one declared last completed
\* first
C6_Witness ==
    /\ pc = "gather"
    /\ \E i, j \in TasksOf(idx) :
          i < j /\ tasks[i].st = "inflight" /\ tasks[j].st = "done"

\* the inputs of task j that read the output of step id
RefsTo(j, id) ==
    {x \in DOMAIN tasks[j].step.inputs.m : RefersTo(tasks[j].step.inputs.m[x], id)}

\* what the input x of task j resolves to when the entry of the step it
\* reads is rec
ValueAt(j, x, rec) ==
    Navigate(rec, SubSeq(RefPath(tasks[j].step.inputs.m[x]), 3,
                         Len(RefPath(tasks[j].step.inputs.m[x]))))

\* C7: nothing of a Parallel group is written to step_outputs before the
\* barrier: while the engine waits in gather no nested step of the group has
\* an entry, and an input that reads a sibling's output resolves to not-found;
\* once the barrier is passed every nested result is recorded and is what the
\* following top-level steps read.
C7_WritesAfterBarrier ==
    \A i \in TaskIds : InGroup(i) =>
        /\ (pc = "gather" /\ tasks[i].top = idx) =>
              tasks[i].step.id \notin DOMAIN step_outputs
        /\ \A j \in TasksOf(tasks[i].top) :
              (j # i /\ tasks[j].params.t = "dict") =>
                  \A x \in RefsTo(j, tasks[i].step.id) : tasks[j].params.m[x] = NoneV
        /\ tasks[i].top < idx =>
              /\ tasks[i].step.id \in DOMAIN step_outputs
              /\ step_outputs[tasks[i].step.id] = Recorded(i)
              /\ \A k \in TaskIds :
                    (tasks[k].top > tasks[i].top /\ tasks[k].params.t = "dict") =>
                        \A x \in RefsTo(k, tasks[i].step.id) :
                            tasks[k].params.m[x] = ValueAt(k, x, Recorded(i))

\* a nested step was sent not-found for its sibling's output, and a step
\* after the group was sent that sibling's result
C7_Witness ==
    \E i, j, k \in TaskIds :
        /\ InGroup(i) /\ j \in TasksOf(tasks[i].top) /\ j # i
        /\ \E x \in RefsTo(j, tasks[i].step.id) :
              tasks[j].params.t = "dict" /\ tasks[j].params.m[x] = NoneV
        /\ tasks[k].top > tasks[i].top
        /\ \E x \in RefsTo(k, tasks[i].step.id) :
              tasks[k].params.t = "dict" /\ tasks[k].params.m[x] # NoneV

\* the entry the namespacing rule gives the result of task i
ExpectedEntry(i) ==
    PyDict(W_outputs :>
        IF tasks[i].step.outputs.t = "str" /\ tasks[i].step.outputs.s # <<>>
        THEN PyDict(tasks[i].step.outputs.s :> tasks[i].result)
        ELSE tasks[i].result)

\* the Parallel groups whose barrier was passed without a failure
PassedGroups ==
    {top \in 1..Len(workflow) :
        /\ entry = "execute_workflow"
        /\ workflow[top].step_type = "parallel"
        /\ top < idx}

\* C8: a Parallel group of n nested steps that all succeed causes exactly n
\* remote invocations, one per nested step; every nested result is stored
\* under the id of its step, under the outputs name when the step declares
\* one; nothing is stored under the id of the Parallel step.
C8_ParallelSuccess ==
    \A top \in PassedGroups :
        /\ Cardinality(TasksOf(top)) = Len(workflow[top].branches.m[W_steps])
        /\ \A k \in 1..Len(workflow[top].branches.m[W_steps]) :
              \E i \in TasksOf(top) :
                  /\ tasks[i].pos = k
                  /\ tasks[i].step = WorkflowStep(workflow[top].branches.m[W_steps][k])
        /\ \A i \in TasksOf(top) :
              /\ tasks[i].st = "done"
              /\ tasks[i].sent = 1
              /\ tasks[i].step.id \in DOMAIN step_outputs
              /\ step_outputs[tasks[i].step.id] = ExpectedEntry(i)
        /\ workflow[top].id \notin DOMAIN step_outputs

\* a group of at least two nested steps, one with an outputs name, succeeded
C8_Witness ==
    \E top \in PassedGroups :
        /\ Cardinality(TasksOf(top)) = MaxGroup
        /\ \E i \in TasksOf(top) : Truthy(tasks[i].step.outputs)

\* the engine has raised out of a Parallel group whose nested steps ran
GroupRaised ==
    /\ entry = "execute_workflow"
    /\ pc = "raised"
    /\ workflow[idx].step_type = "parallel"
    /\ TasksOf(idx) # {}

\* C9: when a nested step of a Parallel group fails the group fails with an
\* error that names a failed nested step, and no nested step of the group has
\* an entry in step_outputs.
C9_NoPartialResult ==
    GroupRaised =>
        /\ \E f \in TasksOf(idx) : tasks[f].st = "failed" /\ error.step = tasks[f].step.id
        /\ \A i \in TasksOf(idx) : tasks[i].step.id \notin DOMAIN step_outputs

\* C10 as stated: as soon as a nested step of the group has failed, the
\* engine is able to surface the error, whatever its siblings are doing.
C10_Original ==
    (pc = "gather" /\ \E f \in TasksOf(idx) : tasks[f].st = "failed")
        => ENABLED GatherReturns

\* C10 amended: an invocation in flight is never cancelled - it ends only
\* with its own response - and the engine leaves the gather of a group, to
\* surface an error or to go on, only when every nested step has finished.
C10_WaitsForSiblings ==
    [][/\ (pc = "gather" /\ pc' # "gather") =>
              \A j \in TasksOf(idx) : Finished(tasks[j])
       /\ \A j \in TaskIds :
              (tasks[j].st = "inflight" /\ tasks'[j] # tasks[j]) =>
                  \E response \in Responses : tasks'[j] = EndExecuteStep(tasks[j], response)]_vars

\* the group failed, and a sibling declared after the failed step had run to
\* completion
C10_Witness ==
    /\ GroupRaised
    /\ \E f, d \in TasksOf(idx) :
          f < d /\ tasks[f].st = "failed" /\ Invoked(f) /\ tasks[d].st = "done"

\* the top-level positions that hold a step of the given pattern
TopLevel(type) ==
    {k \in 1..Len(workflow) : entry = "execute_workflow" /\ workflow[k].step_type = type}

\* the top-level step at position k has been entered
Entered(k) == k < idx \/ (k = idx /\ pc # "loop")

\* the top-level step at position k is over and the loop has moved on
Passed(k) == k < idx

\* what the condition of the step at position k resolves to
ConditionValue(k) ==
    ResolveExpression(workflow[k].condition, workflow_input, step_outputs)

\* the branch of the Conditional step at position k that truthiness selects,
\* and the other one
TruthinessBranch(k) ==
    IF Truthy(ConditionValue(k))
    THEN Get(workflow[k].branches, W_if_true, <<>>)
    ELSE Get(workflow[k].branches, W_if_false, <<>>)

OtherBranch(k) ==
    IF Truthy(ConditionValue(k))
    THEN Get(workflow[k].branches, W_if_false, <<>>)
    ELSE Get(workflow[k].branches, W_if_true, <<>>)

\* the coroutines created for position k are those of the first steps of the
\* list steps, one each, in the order of the list
DispatchedInOrder(k, steps) ==
    /\ Cardinality(TasksOf(k)) <= Len(steps)
    /\ \A i \in TasksOf(k) :
          /\ tasks[i].pos \in 1..Len(steps)
          /\ tasks[i].step = WorkflowStep(steps[tasks[i].pos])
          /\ \A p \in 1..(tasks[i].pos - 1) :
                \E j \in TasksOf(k) : j < i /\ tasks[j].pos = p /\ tasks[j].st = "done"

\* no step of the list steps was dispatched or recorded
NeverTouched(steps) ==
    \A p \in 1..Len(steps) :
        /\ steps[p].id \notin DOMAIN step_outputs
        /\ \A i \in TaskIds : tasks[i].step.id # steps[p].id

\* C11: a Conditional step resolves its condition against the Context and
\* reads it by truthiness: only steps of the branch that truthiness selects
\* (if_true when truthy, if_false otherwise) are dispatched, in the order of
\* the branch and all of them once the step is over; no step of the other
\* branch is ever dispatched and none of their ids is in step_outputs.
C11_ConditionalByTruthiness ==
    \A k \in TopLevel("conditional") :
        (Truthy(workflow[k].condition) /\ Truthy(workflow[k].branches)
           /\ ConditionValue(k).t # "raise") =>
            /\ DispatchedInOrder(k, TruthinessBranch(k))
            /\ Passed(k) => Cardinality(TasksOf(k)) = Len(TruthinessBranch(k))
            /\ NeverTouched(OtherBranch(k))

\* a condition that is a non-empty string sent the run through both steps of
\* if_true, which were recorded
C11_Witness ==
    \E k \in TopLevel("conditional") :
        /\ Passed(k)
        /\ Truthy(workflow[k].branches)
        /\ ConditionValue(k) = PyStr(<<"n", "o">>)
        /\ Cardinality(TasksOf(k)) = 2
        /\ \A i \in TasksOf(k) : tasks[i].step.id \in DOMAIN step_outputs
        /\ Len(OtherBranch(k)) = 1

\* the case key the Switch step at position k looks up
MatchedCase(k) == PyStrOf(ConditionValue(k))

\* the Switch step at position k has evaluated its expression
SwitchEvaluated(k) ==
    /\ Entered(k)
    /\ Truthy(workflow[k].condition)
    /\ Truthy(workflow[k].branches)
    /\ ConditionValue(k).t # "raise"

\* C12: a Switch step stringifies the value of its expression and looks it up
\* as a key of branches: when the key is present the steps of that case, and
\* only those, are executed, whatever the list is; the steps of default are
\* executed only when the key is absent.
C12_ExactKeyLookup ==
    \A k \in TopLevel("switch") :
        SwitchEvaluated(k) =>
            IF MatchedCase(k) \in DOMAIN workflow[k].branches.m
            THEN /\ DispatchedInOrder(k, workflow[k].branches.m[MatchedCase(k)])
                 /\ MatchedCase(k) # W_default =>
                        NeverTouched(Get(workflow[k].branches, W_default, <<>>))
            ELSE DispatchedInOrder(k, Get(workflow[k].branches, W_default, <<>>))

\* the expression of the Switch step at position k evaluates to a string that
\* is no key of branches, and branches has no default
NoCase(k) ==
    /\ Truthy(workflow[k].condition)
    /\ Truthy(workflow[k].branches)
    /\ ConditionValue(k).t # "raise"
    /\ MatchedCase(k) \notin DOMAIN workflow[k].branches.m
    /\ W_default \notin DOMAIN workflow[k].branches.m

\* C13: a Switch step whose stringified value is no key of branches, when
\* branches has no default, is a no-op: it is passed in one step that
\* dispatches nothing, leaves step_outputs unchanged and raises nothing, and
\* the loop goes on with the next top-level step; no coroutine ever belongs
\* to it.
C13_SwitchNoMatchIsNoOp ==
    [][\A k \in TopLevel("switch") :
          (NoCase(k) /\ k <= idx) =>
              /\ \A i \in 1..Len(tasks') : tasks'[i].top # k
              /\ (AtStep /\ idx = k) =>
                    /\ tasks' = tasks
                    /\ step_outputs' = step_outputs
                    /\ error' = NoneV
                    /\ idx' = k + 1
                    /\ pc' = IF k < Len(workflow) THEN "loop" ELSE "returned"]_vars

\* the Switch step matched nothing and the step after it was dispatched
C13_Witness ==
    \E k \in TopLevel("switch") :
        /\ NoCase(k)
        /\ Passed(k)
        /\ TasksOf(k) = {}
        /\ \E i \in TaskIds : tasks[i].top = k + 1 /\ Invoked(i)
        /\ error = NoneV

\* the step at position k lacks a field its pattern needs
Misconfigured(k) ==
    /\ entry = "execute_workflow"
    /\ \/ /\ workflow[k].step_type \in {"conditional", "switch"}
          /\ ~Truthy(workflow[k].condition) \/ ~Truthy(workflow[k].branches)
       \/ /\ workflow[k].step_type = "parallel"
          /\ ~Truthy(workflow[k].branches) \/ W_steps \notin DOMAIN workflow[k].branches.m

\* the errors that report a missing field
ConfigurationErrors == {"missing_condition", "missing_branches", "missing_steps"}

\* C14: a Conditional or Switch step without condition or without branches,
\* and a Parallel step without branches.steps, fails the run in the step that
\* reaches it, with a configuration error - not with an error of the
\* evaluation of its condition: nothing of it is dispatched, then or later,
\* and step_outputs is left as it was.
C14_MisconfiguredFailsFirst ==
    [][\A k \in 1..Len(workflow) :
          (Misconfigured(k) /\ k <= idx) =>
              /\ \A i \in 1..Len(tasks') : tasks'[i].top # k
              /\ (AtStep /\ idx = k) =>
                    /\ pc' = "raised"
                    /\ error'.type = "ValueError"
                    /\ error'.kind \in ConfigurationErrors
                    /\ error'.step = workflow[k].id
                    /\ tasks' = tasks
                    /\ step_outputs' = step_outputs]_vars

\* a Conditional step without branches, whose condition cannot be evaluated,
\* has failed the run with the configuration error, after a step was recorded
C14_Witness ==
    /\ pc = "raised"
    /\ Misconfigured(idx)
    /\ workflow[idx].step_type = "conditional"
    /\ workflow[idx].condition = BadTemplate
    /\ error.kind = "missing_branches"
    /\ TasksOf(idx) = {}
    /\ DOMAIN step_outputs = {<<"a">>}

\* the step at position k has a step_type that is none of the four patterns
Unrecognized(k) ==
    /\ entry = "execute_workflow"
    /\ workflow[k].step_type \notin StepTypes

\* C15: a top-level step of an unrecognized step_type fails execute_workflow
\* with a configuration error in the step that reaches it: its skill is not
\* dispatched, no later step is ever executed, and the steps completed before
\* it are recorded in step_outputs and stay recorded.
C15_UnknownStepTypeFailsFast ==
    [][\A k \in 1..Len(workflow) :
          (Unrecognized(k) /\ k <= idx) =>
              /\ \A i \in 1..Len(tasks') : tasks'[i].top < k
              /\ idx' = idx
              /\ (AtStep /\ idx = k) =>
                    /\ pc' = "raised"
                    /\ error'.type = "ValueError"
                    /\ error'.kind = "unknown_type"
                    /\ tasks' = tasks
                    /\ step_outputs' = step_outputs
                    /\ \A i \in TaskIds :
                          /\ tasks[i].st = "done"
                          /\ tasks[i].step.id \in DOMAIN step_outputs
                          /\ step_outputs[tasks[i].step.id] = ExpectedEntry(i)]_vars

\* the run has failed on the unrecognized step, with the step before it
\* recorded
C15_Witness ==
    /\ pc = "raised"
    /\ Unrecognized(idx)
    /\ error.kind = "unknown_type"
    /\ idx > 1
    /\ \A k \in 1..(idx - 1) : workflow[k].id \in DOMAIN step_outputs
    /\ \A i \in TaskIds : tasks[i].top < idx

\* C16: endpoint resolution is memoized per engine: discover_agent is called
\* at most once for a skill id, also when nested steps of one Parallel group
\* ask for the same skill, and a coroutine that finds its skill in the cache
\* sends its request without calling discover_agent.
C16_DiscoverOnce ==
    \A m, n \in 1..Len(discovered) : discovered[m] = discovered[n] => m = n

\* discovery has failed to locate an agent for the skill of task i
NotFound(i) == tasks[i].st = "failed" /\ tasks[i].exc.kind = "no_agent"

\* a step whose skill no agent provides ends, once its discovery is over, in
\* the skill-not-found failure; it was sent no request and has no entry in
\* step_outputs, and its skill has no entry in the endpoint cache
NotFoundFails ==
    \A i \in TaskIds :
        /\ (DiscoverAgent(tasks[i].step.skill) = NoneV
              /\ tasks[i].st \notin {"pending", "discovering"}) =>
                 (NotFound(i) /\ tasks[i].exc.type = "ValueError")
        /\ NotFound(i) =>
              /\ tasks[i].sent = 0
              /\ tasks[i].step.id \notin DOMAIN step_outputs
              /\ tasks[i].step.skill \notin DOMAIN agent_cache

\* C17 as stated: when discovery finds no endpoint for the skill of a step,
\* the step fails with the skill-not-found error, without a request, an
\* entry or a cache entry, the call does not return a Context, and from then
\* on no step executes: no coroutine is created and no request is sent.
C17_Original ==
    [][/\ NotFoundFails
       /\ (\E i \in TaskIds : NotFound(i)) =>
             /\ NotFoundFails'
             /\ Len(tasks') = Len(tasks)
             /\ pc' \in {pc, "raised"}
             /\ \A j \in 1..Len(tasks') : ~StartsInvocation(j)]_vars

\* C17 amended: as stated, except that the nested steps of the Parallel group
\* the failed step belongs to are not stopped: while the engine waits for the
\* group their requests are still sent.
C17_NotFoundAborts ==
    [][/\ NotFoundFails
       /\ (\E i \in TaskIds : NotFound(i)) =>
             /\ NotFoundFails'
             /\ Len(tasks') = Len(tasks)
             /\ pc' \in {pc, "raised"}
             /\ \A j \in 1..Len(tasks') : StartsInvocation(j) => SiblingOfFailure(j)]_vars

\* a nested step found no agent, its sibling ran to completion, and the run
\* was aborted with steps still to come
C17_Witness ==
    /\ GroupRaised
    /\ idx < Len(workflow)
    /\ \E f, d \in TasksOf(idx) :
          /\ NotFound(f) /\ error.step = tasks[f].step.id
          /\ tasks[d].st = "done" /\ Invoked(d)

\* the Sequential step awaited by the loop has succeeded and is about to be
\* recorded
SequentialSucceeded ==
    /\ pc = "await_step"
    /\ tasks[Len(tasks)].st = "done"

\* C18: when a Sequential step has succeeded with result r, the step that
\* records it sets step_outputs[step.id] to {outputs: {<step.outputs>: r}}
\* if the step declares an outputs name and to {outputs: r} otherwise, and
\* changes no other entry of step_outputs.
C18_SequentialRecord ==
    [][SequentialSucceeded =>
          /\ DOMAIN step_outputs' = DOMAIN step_outputs \cup {tasks[Len(tasks)].step.id}
          /\ step_outputs'[tasks[Len(tasks)].step.id] =
                IF tasks[Len(tasks)].step.outputs = NoneV
                THEN PyDict(W_outputs :> tasks[Len(tasks)].result)
                ELSE PyDict(W_outputs :>
                        PyDict(tasks[Len(tasks)].step.outputs.s :> tasks[Len(tasks)].result))
          /\ \A id \in DOMAIN step_outputs \ {tasks[Len(tasks)].step.id} :
                step_outputs'[id] = step_outputs[id]]_vars

\* a step without an outputs name and a step with the outputs name v are
\* both recorded
C18_Witness ==
    /\ <<"a">> \in DOMAIN step_outputs
    /\ <<"b">> \in DOMAIN step_outputs
    /\ \E r \in Results : step_outputs[<<"a">>] = PyDict(W_outputs :> r)
    /\ \E r \in Results :
          step_outputs[<<"b">>] = PyDict(W_outputs :> PyDict(<<"v">> :> r))

\* the places of the workflow where a step is declared: <<k, <<>>, 0>> for
\* the top-level step k, <<k, key, p>> for the p-th step of its list
\* branches[key]
Declared ==
    {<<k, <<>>, 0>> : k \in 1..Len(workflow)}
    \cup UNION {UNION {{<<k, key, p>> : p \in 1..Len(workflow[k].branches.m[key])} :
                          key \in DOMAIN workflow[k].branches.m} :
                   k \in {j \in 1..Len(workflow) : workflow[j].branches.t = "dict"}}

IdAt(d) ==
    IF d[3] = 0 THEN workflow[d[1]].id
    ELSE workflow[d[1]].branches.m[d[2]][d[3]].id

\* all the step ids of the workflow, nested ones included, are distinct
DistinctIds == \A c, d \in Declared : IdAt(c) = IdAt(d) => c = d

\* how far a step has got: Pending, Resolving Inputs / Dispatching, and the
\* two final states
Progress(st) ==
    CASE st = "pending"     -> 0
      [] st = "discovering" -> 1
      [] st = "inflight"    -> 2
      [] OTHER              -> 3

\* every entry of step_outputs belongs to a step whose request has returned
\* successfully; a step in any other state has none
OnlyCompletedRecorded ==
    /\ \A id \in DOMAIN step_outputs :
          \E i \in TaskIds : tasks[i].step.id = id /\ tasks[i].st = "done" /\ Invoked(i)
    /\ \A i \in TaskIds :
          tasks[i].st # "done" => tasks[i].step.id \notin DOMAIN step_outputs

\* C19: step_outputs holds an entry for a step id only if the request of that
\* step has returned successfully in this run - a step that is pending,
\* resolving, in flight or failed has none (a step being told from the others
\* by its id) - and the state of a step only moves forward: a step that is
\* Completed or Failed never changes again.
C19_StepLifecycle ==
    [][/\ DistinctIds => (OnlyCompletedRecorded /\ OnlyCompletedRecorded')
       /\ Len(tasks') >= Len(tasks)
       /\ \A i \in TaskIds :
             /\ Progress(tasks'[i].st) >= Progress(tasks[i].st)
             /\ Finished(tasks[i]) => tasks'[i] = tasks[i]]_vars

\* the run was aborted by a step whose request failed: it has no entry, the
\* step completed before it has one
C19_Witness ==
    /\ pc = "raised"
    /\ \E i, j \in TaskIds :
          /\ tasks[i].st = "done" /\ tasks[i].step.id \in DOMAIN step_outputs
          /\ tasks[j].st = "failed" /\ Invoked(j)
          /\ tasks[j].step.id \notin DOMAIN step_outputs

\* the coroutines whose result the engine is about to record
AboutToRecord ==
    IF pc \in {"await_step", "await_branch"}
    THEN {i \in {Len(tasks)} : tasks[i].st = "done"}
    ELSE IF pc = "gather" THEN TasksOf(idx)
    ELSE {}

\* C20: step_outputs grows monotonically: no step of the run removes an
\* entry; when all the step ids of the workflow, nested ones included, are
\* distinct, an entry that was written never changes and a result is only
\* ever recorded under an id that has no entry yet, so that every id is
\* written at most once.
C20_Monotonic ==
    [][/\ DOMAIN step_outputs \subseteq DOMAIN step_outputs'
       /\ DistinctIds =>
             /\ EntriesKept
             /\ \A i \in AboutToRecord : tasks[i].step.id \notin DOMAIN step_outputs]_vars

\* a workflow of distinct ids has returned with three entries
C20_Witness ==
    /\ DistinctIds
    /\ pc = "returned"
    /\ Cardinality(DOMAIN step_outputs) >= 3

\* the set_step_output calls made so far for step_id, as positions of set_calls
CallsFor(step_id) == {n \in 1..Len(set_calls) : set_calls[n].step_id = step_id}

\* every id has the entry of the last call made for it, and no entry if no
\* call was made for it
LastWriteWins ==
    \A step_id \in CalledIds :
        IF CallsFor(step_id) = {}
        THEN step_id \notin DOMAIN step_outputs
        ELSE /\ step_id \in DOMAIN step_outputs
             /\ \E n \in CallsFor(step_id) :
                   /\ \A m \in CallsFor(step_id) : m <= n
                   /\ step_outputs[step_id] = PyDict(W_outputs :> set_calls[n].output)

\* the step just taken is a call of set_step_output
SetCalled == Len(set_calls') = Len(set_calls) + 1

\* C21: set_step_output(id, out) sets step_outputs[id] to {outputs: out},
\* also when id has an entry already, and leaves every other entry and
\* workflow_input as they are; after any sequence of calls the entry of an id
\* is the one of the last call made for that id.
C21_SetStepOutput ==
    [][/\ LastWriteWins
       /\ LastWriteWins'
       /\ SetCalled =>
             /\ step_outputs'[set_calls'[Len(set_calls')].step_id] =
                   PyDict(W_outputs :> set_calls'[Len(set_calls')].output)
             /\ DOMAIN step_outputs' =
                   DOMAIN step_outputs \cup {set_calls'[Len(set_calls')].step_id}
             /\ \A id \in DOMAIN step_outputs \ {set_calls'[Len(set_calls')].step_id} :
                   step_outputs'[id] = step_outputs[id]
             /\ workflow_input' = workflow_input]_vars

\* an id was written twice, with two different outputs
C21_Witness ==
    \E m, n \in 1..Len(set_calls) :
        /\ m < n
        /\ set_calls[m].step_id = set_calls[n].step_id
        /\ set_calls[m].output # set_calls[n].output
        /\ step_outputs[set_calls[n].step_id] = PyDict(W_outputs :> set_calls[n].output)

\* C22: no step of a run modifies the initial input or the workflow
\* definition: across every step, the ones that store an output and the one
\* that raises included, workflow_input and the steps with their inputs,
\* conditions and raw branch mappings are what they were before the step
C22_InputAndDefinitionReadOnly ==
    [][/\ workflow_input' = workflow_input
       /\ workflow' = workflow]_vars

\* a run that stored an output and then failed, on a non-empty input
C22_Witness ==
    /\ entry = "execute_workflow"
    /\ pc = "raised"
    /\ DOMAIN step_outputs # {}
    /\ workflow_input # EmptyDict

\* the outputs payload recorded for a top-level step, empty when the step
\* has no record
PayloadOf(step) ==
    IF step.id \in DOMAIN step_outputs
    THEN Get(step_outputs[step.id], W_outputs, EmptyDict)
    ELSE EmptyDict

\* C24: when execute_workflow has returned, final_output is the outputs
\* payload of the last top-level step in declaration order
C24_FinalOutputOfLastDeclared ==
    (entry = "execute_workflow" /\ pc = "returned" /\ workflow # <<>>) =>
        ExtractFinalOutput(step_outputs, key_order) = PayloadOf(workflow[Len(workflow)])

\* the top-level step at position k can select a branch: it has a condition
\* that resolves and a branches mapping
Selects(k) ==
    /\ Truthy(workflow[k].condition)
    /\ workflow[k].branches.t = "dict"
    /\ ConditionValue(k).t # "raise"

\* the ids of the leaf steps that the top-level step at position k executes;
\* a step that cannot be executed has none
LeafIds(k) ==
    CASE workflow[k].step_type = "sequential" -> {workflow[k].id}
      [] workflow[k].step_type = "parallel" /\ ~Misconfigured(k) ->
            {workflow[k].branches.m[W_steps][p].id :
                p \in 1..Len(workflow[k].branches.m[W_steps])}
      [] workflow[k].step_type = "conditional" /\ Selects(k) ->
            {TruthinessBranch(k)[p].id : p \in 1..Len(TruthinessBranch(k))}
      [] workflow[k].step_type = "switch" /\ Selects(k) ->
            {SwitchBranch(workflow[k].branches, MatchedCase(k))[p].id :
                p \in 1..Len(SwitchBranch(workflow[k].branches, MatchedCase(k)))}
      [] OTHER -> {}

\* the call has returned a Context whose keys are exactly the ids of the
\* executed leaf steps
ReturnedLeafKeys ==
    /\ pc = "returned"
    /\ DOMAIN step_outputs = UNION {LeafIds(k) : k \in 1..Len(workflow)}

\* a remote invocation did not return successfully
InvocationFailed ==
    \E i \in 1..Len(tasks) :
        tasks[i].st = "failed" /\ tasks[i].exc.kind \in {"failed", "timed_out"}

\* the call raised though no invocation failed: a skill without an agent, a
\* template that cannot be resolved, a step that is misconfigured, malformed
\* or of an unknown type
FailedWithoutInvocation ==
    /\ pc = "raised"
    /\ ~InvocationFailed
    /\ \/ error.kind \in ConfigurationErrors \cup {"malformed", "unknown_type", "resolve"}
       \/ \E i \in 1..Len(tasks) :
             tasks[i].st = "failed" /\ tasks[i].exc.kind \in {"no_agent", "resolve"}

\* C25 as stated: unless a remote invocation fails, execute_workflow
\* eventually returns a Context whose keys are exactly the ids of the
\* executed leaf steps
C25_Original ==
    <>(entry # "execute_workflow" \/ InvocationFailed \/ ReturnedLeafKeys)

\* C25: execute_workflow terminates; unless a remote invocation fails, or a
\* step fails before it invokes anything (no agent for its skill, an
\* unresolvable template, a misconfigured, malformed or unknown step), it
\* returns a Context whose keys are exactly the ids of the executed leaf
\* steps: the top-level Sequential steps, the nested steps of the Parallel
\* groups and the steps of the selected Conditional and Switch branches.
C25_TerminatesWithLeafKeys ==
    <>(\/ entry # "execute_workflow"
       \/ pc = "raised" /\ InvocationFailed
       \/ FailedWithoutInvocation
       \/ ReturnedLeafKeys)

\* a run with a selected branch has returned
C25_Witness ==
    /\ entry = "execute_workflow"
    /\ pc = "returned"
    /\ \E k \in 1..Len(workflow) :
          workflow[k].step_type \in {"conditional", "switch"} /\ TasksOf(k) # {}

\* resolve_expression was the last call made on the Context
Resolved == last_call.method = "resolve_expression"

\* the string is, after trimming, enclosed in "{{" and "}}"
Enclosed(s) ==
    /\ Len(Strip(s)) >= 4
    /\ SubSeq(Strip(s), 1, 2) = Open
    /\ SubSeq(Strip(s), Len(Strip(s)) - 1, Len(Strip(s))) = Close

\* C26: resolve_expression returns its argument unchanged for every
\* non-string value and for every string that is not, after trimming,
\* entirely of the form {{ <expr> }}: plain text, partial templates, a
\* template preceded or followed by other text.
C26_NonTemplatesUnchanged ==
    (Resolved /\ (last_call.arg.t # "str" \/ ~Enclosed(last_call.arg.s))) =>
        last_call.ret = last_call.arg

\* C27: resolve_expression does not raise and returns not-found for every
\* full template whose expression is empty or blank, or whose path has
\* neither the form workflow.input.<rest> nor steps.<id>.outputs.<rest>.
C27_OtherTemplatesNotFound ==
    (Resolved /\ last_call.arg \in EmptyTemplates \cup OtherRoots) =>
        last_call.ret = NoneV

\* one step down from v: the value under key, not-found if v is no mapping
\* or has no such key
At(v, key) == IF v.t = "dict" /\ key \in DOMAIN v.m THEN v.m[key] ELSE NoneV

RECURSIVE Descend(_, _)
\* the value reached from v by the keys, one key at a time
Descend(v, keys) ==
    IF keys = <<>> THEN v ELSE Descend(At(v, Head(keys)), Tail(keys))

\* the key paths of the templates on the workflow input
InputPaths ==
    {<< <<"k">> >>, << <<"a">> >>, << <<"m">> >>,
     << <<"a">>, <<"b">> >>, << <<"a">>, <<"m">> >>, << <<"k">>, <<"b">> >>,
     << <<"a">>, <<"b">>, <<"c">> >>}

\* C28: {{ workflow.input.k1...kn }} resolves to the value reached by
\* descending workflow_input one key at a time, and to not-found, without
\* raising, when a key is absent or the value reached is no mapping; the
\* whitespace around the template and inside the braces plays no part.
C28_InputPathDescent ==
    /\ \A keys \in InputPaths :
          (Resolved /\ last_call.arg = InputRef(keys)) =>
              last_call.ret = Descend(workflow_input, keys)
    /\ (Resolved /\ last_call.arg \in InputTemplates) =>
          /\ last_call.ret.t # "raise"
          /\ \E keys \in InputPaths : last_call.ret = Descend(workflow_input, keys)
    /\ (Resolved /\ last_call.arg \in InputTemplates \ {InputRef(keys) : keys \in InputPaths}) =>
          last_call.ret = At(workflow_input, <<"k">>)
    /\ (Resolved /\ workflow_input # EmptyDict) =>
          /\ last_call.arg = InAB => last_call.ret = PyInt(7)
          /\ last_call.arg = InputRef(<< <<"a">>, <<"b">>, <<"c">> >>) => last_call.ret = NoneV
          /\ last_call.arg = InputRef(<< <<"k">>, <<"b">> >>) => last_call.ret = NoneV
          /\ last_call.arg = InputRef(<< <<"a">>, <<"m">> >>) => last_call.ret = NoneV

\* a segment past a scalar was resolved
C28_Witness ==
    /\ Resolved
    /\ workflow_input # EmptyDict
    /\ last_call.arg = InputRef(<< <<"a">>, <<"b">>, <<"c">> >>)
    /\ last_call.ret = NoneV

\* the output of the last set_step_output call made for step_id
LastOutput(step_id) ==
    set_calls[CHOOSE n \in CallsFor(step_id) : \A m \in CallsFor(step_id) : m <= n].output

\* the ids and the paths of the templates on the step outputs
ReferredIds == CalledIds \cup {<<"q">>}
OutputPaths == {<<>>, << <<"y">> >>, << <<"m">> >>, << <<"y">>, <<"z">> >>}

\* C29: {{ steps.<id>.outputs.<path> }} resolves to not-found as long as no
\* output has been recorded for <id>; once set_step_output(<id>, out) was
\* called it resolves to the value at <path> inside out, the out of the most
\* recent call when there were several.
C29_StepOutputResolution ==
    \A step_id \in ReferredIds, path \in OutputPaths :
        (Resolved /\ last_call.arg = StepRef(step_id, path)) =>
            last_call.ret = IF CallsFor(step_id) = {}
                            THEN NoneV
                            ELSE Descend(LastOutput(step_id), path)

\* an id that was written twice, with different outputs, was resolved to a
\* value inside the second one
C29_Witness ==
    /\ Resolved
    /\ last_call.arg = StepRef(<<"x">>, << <<"y">>, <<"z">> >>)
    /\ Cardinality(CallsFor(<<"x">>)) = 2
    /\ set_calls[1].output # set_calls[2].output
    /\ last_call.ret = PyInt(1)

\* the list r is the list l with resolve_expression applied to its strings
\* and every other element as it is
ListResolvedAs(l, r) ==
    /\ r.t = "list"
    /\ Len(r.l) = Len(l.l)
    /\ \A i \in 1..Len(l.l) :
          r.l[i] = IF l.l[i].t = "str"
                   THEN ResolveExpression(l.l[i], workflow_input, step_outputs)
                   ELSE l.l[i]

RECURSIVE ResolvedAs(_, _)
\* the mapping r is the mapping d resolved: the same keys, the strings
\* resolved, the mappings resolved in the same way, the lists resolved one
\* level deep, every other value as it is
ResolvedAs(d, r) ==
    /\ r.t = "dict"
    /\ DOMAIN r.m = DOMAIN d.m
    /\ \A k \in DOMAIN d.m :
          CASE d.m[k].t = "str"  ->
                 r.m[k] = ResolveExpression(d.m[k], workflow_input, step_outputs)
            [] d.m[k].t = "dict" -> ResolvedAs(d.m[k], r.m[k])
            [] d.m[k].t = "list" -> ListResolvedAs(d.m[k], r.m[k])
            [] OTHER             -> r.m[k] = d.m[k]

\* resolve_inputs was the last call made on the Context and has returned
InputsResolved == last_call.method = "resolve_inputs" /\ last_call.ret.t # "raise"

\* C30: resolve_inputs returns a mapping with the same keys in which every
\* string is replaced by resolve_expression of it, every nested mapping is
\* resolved in the same way, every list has resolve_expression applied to its
\* string elements only - a mapping or a list inside a list passes through
\* unresolved - and every other value is unchanged; the mapping it was given
\* is not modified.
C30_ResolveInputs ==
    /\ InputsResolved =>
          /\ ResolvedAs(last_call.arg, last_call.ret)
          /\ last_call.after = last_call.arg
    /\ (InputsResolved /\ <<"l">> \in DOMAIN last_call.arg.m) =>
          \A i \in 1..Len(last_call.arg.m[<<"l">>].l) :
              last_call.arg.m[<<"l">>].l[i].t \in {"dict", "list"} =>
                  last_call.ret.m[<<"l">>].l[i] = last_call.arg.m[<<"l">>].l[i]

\* a mapping with a nested mapping and a list that holds a template, a
\* mapping and a list was resolved to something else than itself
C30_Witness ==
    /\ InputsResolved
    /\ <<"d">> \in DOMAIN last_call.arg.m
    /\ <<"l">> \in DOMAIN last_call.arg.m
    /\ \E i, j \in 1..Len(last_call.arg.m[<<"l">>].l) :
          /\ last_call.arg.m[<<"l">>].l[i].t = "str"
          /\ last_call.arg.m[<<"l">>].l[j].t = "dict"
    /\ last_call.ret # last_call.arg

RECURSIVE AloneContext(_, _)
\* the step_outputs of call r after its first n steps, had it run alone and
\* been given the results it was given
AloneContext(r, n) ==
    IF n = 0 THEN <<>>
    ELSE SetStepOutput(AloneContext(r, n - 1), runs[r].workflow[n].id,
                       Namespaced(runs[r].workflow[n], runs[r].got[n]))

\* C23: of two calls that execute concurrently on one engine, each reads and
\* writes the Context it created: the inputs that a call resolves for its
\* n-th step are those resolved against its own input and the outputs of its
\* own first n-1 steps, never an output that the other call wrote, and in
\* every state, the final one included, the Context of a call is the one it
\* would have had running alone with the same results.
C23_ContextPerRun ==
    \A r \in RunIds :
        /\ runs[r].step_outputs = AloneContext(r, Len(runs[r].got))
        /\ \A n \in 1..Len(runs[r].sent) :
              runs[r].sent[n] = ResolveInputs(runs[r].workflow[n].inputs,
                                              runs[r].workflow_input,
                                              AloneContext(r, n - 1))

\* both calls are waiting for their second step at once, after their first
\* steps, of the same id, returned different results
C23_Witness ==
    /\ \A r \in RunIds : runs[r].idx = 2 /\ runs[r].task.st = "inflight"
    /\ runs[1].workflow[1].id = runs[2].workflow[1].id
    /\ runs[1].got[1] # runs[2].got[1]
    /\ runs[1].sent[2] # runs[2].sent[2]

\* the second call resolved a reference to a step that only the first call
\* has, after the first call had stored its output
ForeignStepResolved ==
    /\ runs[2].workflow[1] = StepB
    /\ <<"a">> \in DOMAIN runs[1].step_outputs
    /\ Len(runs[2].sent) >= 1

\* what the resolver call recorded in c returns when it is made on the
\* Context wi, so
Again(c, wi, so) ==
    IF c.method = "resolve_expression"
    THEN ResolveExpression(c.arg, wi, so)
    ELSE ResolveInputs(c.arg, wi, so)

TimedOut(i) ==
    /\ tasks[i].st = "failed"
    /\ tasks[i].exc.cause = Raised("httpx.TimeoutException")

\* C32: a step whose remote invocation exceeds step.timeout fails with the
\* timeout error - the one whose message has the step id and the timeout
\* value, distinct from the error of the other remote-call failures - and the
\* run aborts.
C32_TimeoutReported ==
    \A i \in TaskIds :
        TimedOut(i) =>
            /\ tasks[i].exc.type = "RuntimeError"
            /\ tasks[i].exc.kind = "timed_out"
            /\ tasks[i].exc.step = tasks[i].step.id
            /\ pc \notin {"loop", "returned"}

\* some definition of the list is malformed
MalformedIn(steps) == \E p \in 1..Len(steps) : Malformed(steps[p])

\* some branch of the top-level step at position k has a malformed definition
HasMalformed(k) ==
    /\ workflow[k].branches.t = "dict"
    /\ \E key \in DOMAIN workflow[k].branches.m : MalformedIn(workflow[k].branches.m[key])

\* the branch that the Conditional or Switch step at position k selects
SelectedBranch(k) ==
    IF workflow[k].step_type = "conditional"
    THEN TruthinessBranch(k)
    ELSE SwitchBranch(workflow[k].branches, MatchedCase(k))

\* the step at position k has selected a well-formed branch, and a branch
\* it has not selected holds a malformed definition
MalformedUnvisited(k) ==
    /\ Entered(k)
    /\ Selects(k)
    /\ HasMalformed(k)
    /\ ~MalformedIn(SelectedBranch(k))

\* C33: a malformed nested definition in a branch that a Conditional or
\* Switch step does not select causes no error: no validation error is
\* raised, the malformed definition is never dispatched, the steps of the
\* selected branch are dispatched in order, and once the step is passed all
\* of them have been executed and recorded, as with a well-formed branch.
C33_LazyValidation ==
    \A k \in TopLevel("conditional") \cup TopLevel("switch") :
        MalformedUnvisited(k) =>
            /\ pc = "raised" => error.kind # "malformed"
            /\ DispatchedInOrder(k, SelectedBranch(k))
            /\ \A i \in TaskIds : tasks[i].step.id # MalformedRaw.id
            /\ Passed(k) =>
                  /\ Cardinality(TasksOf(k)) = Len(SelectedBranch(k))
                  /\ \A p \in 1..Len(SelectedBranch(k)) :
                        SelectedBranch(k)[p].id \in DOMAIN step_outputs

\* a run whose Conditional or Switch step has a malformed definition in the
\* branch it did not select has returned
C33_Witness ==
    /\ pc = "returned"
    /\ \E k \in TopLevel("conditional") \cup TopLevel("switch") :
          MalformedUnvisited(k) /\ TasksOf(k) # {}

\* C34: a step list executed as the selected branch of a Conditional or
\* Switch step leaves the Context as execute_sequential_steps would: the
\* result of every nested step that has been recorded is stored under its id
\* with the Sequential namespacing rule, under the outputs name of the step
\* when it declares one.
C34_BranchLikeSequential ==
    \A i \in TaskIds :
        (InBranch(i) /\ DistinctIds /\ tasks[i].step.id \in DOMAIN step_outputs) =>
            step_outputs[tasks[i].step.id] =
                PyDict(W_outputs :> Namespaced(tasks[i].step, tasks[i].result))

\* coroutine a returned or raised before coroutine b did
FinishedBefore(a, b) ==
    \E m, n \in 1..Len(finished) : m < n /\ finished[m] = a /\ finished[n] = b

\* the failed nested step of the group at idx that is declared first
FirstFailed == CHOOSE f \in TasksOf(idx) :
    /\ tasks[f].st = "failed"
    /\ \A j \in TasksOf(idx) : tasks[j].st = "failed" => tasks[f].pos <= tasks[j].pos

\* the nested steps declared before the first failed one under step_id, and
\* the last of them
EarlierDeclaring(step_id) ==
    {i \in TasksOf(idx) :
        tasks[i].step.id = step_id /\ tasks[i].pos < tasks[FirstFailed].pos}

LastEarlierDeclaring(step_id) == CHOOSE i \in EarlierDeclaring(step_id) :
    \A j \in EarlierDeclaring(step_id) : tasks[j].pos <= tasks[i].pos

\* C35: when nested steps of a Parallel group fail, the error raised names
\* the failed nested step declared first, whenever it failed; the results of
\* the nested steps declared before it are recorded in step_outputs, and
\* the result of neither it nor any nested step declared after it is, whether
\* it succeeded or not: an id holds the result of the last nested step
\* declared under it before the failed one, and no entry when there is none.
C35_FirstDeclaredFailure ==
    GroupRaised =>
        /\ error.type = "RuntimeError"
        /\ error.kind = "failed"
        /\ error.step = tasks[FirstFailed].step.id
        /\ \A i \in TasksOf(idx) :
              IF EarlierDeclaring(tasks[i].step.id) # {}
              THEN /\ tasks[i].step.id \in DOMAIN step_outputs
                   /\ step_outputs[tasks[i].step.id] =
                         ExpectedEntry(LastEarlierDeclaring(tasks[i].step.id))
              ELSE tasks[i].step.id \notin DOMAIN step_outputs

\* two nested steps failed, the one declared last first, and the error names
\* the one declared first
C35_Witness ==
    /\ GroupRaised
    /\ \E i, j \in TasksOf(idx) :
          /\ tasks[i].pos < tasks[j].pos
          /\ tasks[i].st = "failed" /\ tasks[j].st = "failed"
          /\ FinishedBefore(j, i)
          /\ error.step = tasks[i].step.id

\* a nested step failed after a sibling declared after it had succeeded, and
\* the sibling has no entry
LaterSuccessDropped ==
    /\ GroupRaised
    /\ \E i, j \in TasksOf(idx) :
          /\ tasks[i].pos < tasks[j].pos
          /\ tasks[i].st = "failed" /\ tasks[j].st = "done"
          /\ FinishedBefore(j, i)
          /\ tasks[j].step.id \notin DOMAIN step_outputs

\* the barrier of the Parallel group at idx is passed without a failure
BarrierPassed ==
    /\ entry = "execute_workflow"
    /\ pc = "gather"
    /\ pc' \notin {"gather", "raised"}

\* the ids the nested steps of the group at top declare
GroupIds(top) == {tasks[i].step.id : i \in TasksOf(top)}

\* the nested step of the group at top that declares step_id first / last
FirstDeclaring(top, step_id) == CHOOSE i \in TasksOf(top) :
    /\ tasks[i].step.id = step_id
    /\ \A j \in TasksOf(top) : tasks[j].step.id = step_id => tasks[i].pos <= tasks[j].pos

LastDeclaring(top, step_id) == CHOOSE i \in TasksOf(top) :
    /\ tasks[i].step.id = step_id
    /\ \A j \in TasksOf(top) : tasks[j].step.id = step_id => tasks[j].pos <= tasks[i].pos

\* the keys added to the dict by the step just taken
AddedKeys == SubSeq(key_order', Len(key_order) + 1, Len(key_order'))

\* C36: what a successful Parallel group leaves in the Context is a function
\* of the declarations and the results alone, never of the order in which the
\* nested invocations completed: past the barrier every id of the group holds
\* the result of the nested step that declares it last, every other entry is
\* unchanged, and the keys the group adds to step_outputs come after the
\* existing ones, each once, in the order of their first declaration.
C36_DeclarationOrderStore == [][
    BarrierPassed =>
        /\ DOMAIN step_outputs' = DOMAIN step_outputs \cup GroupIds(idx)
        /\ \A id \in GroupIds(idx) :
              step_outputs'[id] = ExpectedEntry(LastDeclaring(idx, id))
        /\ \A id \in DOMAIN step_outputs \ GroupIds(idx) :
              step_outputs'[id] = step_outputs[id]
        /\ Len(key_order') >= Len(key_order)
        /\ SubSeq(key_order', 1, Len(key_order)) = key_order
        /\ {AddedKeys[n] : n \in 1..Len(AddedKeys)} = GroupIds(idx) \ DOMAIN step_outputs
        /\ \A m, n \in 1..Len(AddedKeys) :
              m < n => tasks[FirstDeclaring(idx, AddedKeys[m])].pos
                         < tasks[FirstDeclaring(idx, AddedKeys[n])].pos
    ]_vars

\* past the barrier of a group whose two nested steps share an id and
\* completed in the reverse of their declaration order, the entry is the
\* result of the one declared last
C36_Witness ==
    \E top \in PassedGroups : \E i, j \in TasksOf(top) :
        /\ tasks[i].pos < tasks[j].pos
        /\ tasks[i].step.id = tasks[j].step.id
        /\ FinishedBefore(j, i)
        /\ ExpectedEntry(i) # ExpectedEntry(j)
        /\ step_outputs[tasks[j].step.id] = ExpectedEntry(j)

\* two nested steps with distinct ids completed in the reverse of their
\* declaration order and their keys are in declaration order
ReverseCompletionKeys ==
    \E top \in PassedGroups : \E i, j \in TasksOf(top) :
        /\ tasks[i].pos < tasks[j].pos
        /\ FinishedBefore(j, i)
        /\ \E m, n \in 1..Len(key_order) :
              m < n /\ key_order[m] = tasks[i].step.id /\ key_order[n] = tasks[j].step.id

\* the call ended on a nested definition that WorkflowStep(**raw) rejects
MalformedRaised ==
    /\ entry = "execute_workflow"
    /\ pc = "raised"
    /\ error.kind = "malformed"

\* C37: a malformed nested definition at position k of the selected branch of
\* a Conditional or Switch step raises only after the k-1 nested steps before
\* it were dispatched, one invocation each, and recorded in step_outputs; a
\* malformed nested definition of a Parallel group raises before any nested
\* step of the group is dispatched.
C37_ValidationVersusDispatch ==
    MalformedRaised =>
        IF workflow[idx].step_type = "parallel"
        THEN /\ MalformedIn(workflow[idx].branches.m[W_steps])
             /\ TasksOf(idx) = {}
        ELSE /\ workflow[idx].step_type \in {"conditional", "switch"}
             /\ bidx \in 1..Len(branch_steps)
             /\ Malformed(branch_steps[bidx])
             /\ \A m \in 1..(bidx - 1) : ~Malformed(branch_steps[m])
             /\ {tasks[i].pos : i \in TasksOf(idx)} = 1..(bidx - 1)
             /\ Cardinality(TasksOf(idx)) = bidx - 1
             /\ \A i \in TasksOf(idx) :
                   /\ tasks[i].st = "done"
                   /\ tasks[i].sent = 1
                   /\ tasks[i].step.id = WorkflowStep(branch_steps[tasks[i].pos]).id
                   /\ tasks[i].step.id \in DOMAIN step_outputs
                   /\ step_outputs[tasks[i].step.id] = Recorded(i)

\* a branch raised on its second definition after the first was dispatched
\* and recorded
C37_Witness ==
    /\ MalformedRaised
    /\ workflow[idx].step_type \in {"conditional", "switch"}
    /\ bidx = 2
    /\ \E i \in TasksOf(idx) :
          /\ tasks[i].st = "done"
          /\ step_outputs[tasks[i].step.id] = Recorded(i)

\* a Parallel group with a well-formed first definition and a malformed
\* second one raised without a dispatch
ParallelNeverDispatched ==
    /\ MalformedRaised
    /\ workflow[idx].step_type = "parallel"
    /\ ~Malformed(workflow[idx].branches.m[W_steps][1])
    /\ TasksOf(idx) = {}

\* the top-level steps of a pattern with nested steps
Composite ==
    {k \in 1..Len(workflow) :
        /\ entry = "execute_workflow"
        /\ workflow[k].step_type \in {"parallel", "conditional", "switch"}}

\* C38: a top-level Parallel, Conditional or Switch step is never dispatched
\* itself: no coroutine runs it, its skill is never looked up nor invoked,
\* its inputs are never resolved (a template in them that raises never makes
\* the step fail), and step_outputs never has an entry under its id; the
\* coroutines at its position are its nested steps.
C38_CompositeNeverDispatched ==
    \A k \in Composite :
        /\ \A i \in TasksOf(k) :
              /\ tasks[i].pos >= 1
              /\ tasks[i].step # workflow[k]
              /\ tasks[i].step.id # workflow[k].id
              /\ tasks[i].step.skill # workflow[k].skill
        /\ \A n \in 1..Len(discovered) : discovered[n] # workflow[k].skill
        /\ workflow[k].id \notin DOMAIN step_outputs
        /\ \A n \in 1..Len(key_order) : key_order[n] # workflow[k].id
        /\ (pc = "raised" /\ error.kind \in {"failed", "resolve", "no_agent"}) =>
              error.step # workflow[k].id

\* a step of such a pattern whose own inputs hold a template that raises
\* was passed, and its nested steps were invoked and recorded
C38_Witness ==
    \E k \in Composite :
        /\ k < idx
        /\ workflow[k].inputs = PyDict(<<"e">> :> BadTemplate)
        /\ TasksOf(k) # {}
        /\ \A i \in TasksOf(k) :
              /\ tasks[i].st = "done"
              /\ tasks[i].sent = 1
              /\ tasks[i].step.id \in DOMAIN step_outputs

\* the nested definitions of the top-level step at position k
NestedRaws(k) ==
    IF workflow[k].branches.t # "dict" THEN {}
    ELSE UNION {{workflow[k].branches.m[key][p] :
                    p \in 1..Len(workflow[k].branches.m[key])} :
                key \in DOMAIN workflow[k].branches.m}

\* the definitions listed in the branches of a nested definition
DeepRaws(raw) ==
    IF "branches" \notin DOMAIN raw THEN {}
    ELSE UNION {{raw.branches.m[key][p] : p \in 1..Len(raw.branches.m[key])} :
                key \in DOMAIN raw.branches.m}

\* the ids declared two levels down
DeepIds ==
    {d.id : d \in UNION {DeepRaws(raw) : raw \in UNION {NestedRaws(k) : k \in Composite}}}

\* the coroutines of nested steps
NestedTasks == {i \in TaskIds : entry = "execute_workflow" /\ tasks[i].pos >= 1}

\* C39: a nested step is one plain dispatch of its own skill, whatever its
\* step_type, condition and branches say: its coroutine is the step of its
\* definition, it sends at most one request and exactly one when it
\* succeeds, its result is the answer of its own skill, and no step declared
\* in its branches is ever dispatched or recorded.
C39_NestedStepsArePlain ==
    /\ \A i \in NestedTasks :
          /\ tasks[i].top \in Composite
          /\ \E raw \in NestedRaws(tasks[i].top) :
                ~Malformed(raw) /\ tasks[i].step = WorkflowStep(raw)
          /\ tasks[i].sent \in {0, 1}
          /\ tasks[i].st = "inflight" => tasks[i].sent = 1
          /\ tasks[i].st = "done" =>
                /\ tasks[i].sent = 1
                /\ \E response \in Responses :
                      tasks[i].result = CallAgentSkill(response)
          /\ tasks[i].step.id \notin DeepIds
    /\ \A k \in Composite : Cardinality(TasksOf(k)) <= Cardinality(NestedRaws(k))
    /\ \A n \in 1..Len(discovered) :
          \E i \in TaskIds : tasks[i].step.skill = discovered[n]
    /\ DeepIds \cap DOMAIN step_outputs = {}

\* nested steps that declare branches of their own were invoked once each
\* and recorded, and the workflow went on
C39_Witness ==
    \E k \in Composite :
        /\ k < idx
        /\ \E i \in TasksOf(k) :
              /\ tasks[i].step.step_type # "sequential"
              /\ Truthy(tasks[i].step.branches)
        /\ \A i \in TasksOf(k) :
              /\ tasks[i].st = "done"
              /\ tasks[i].sent = 1
              /\ tasks[i].step.id \in DOMAIN step_outputs
        /\ DeepIds # {}

\* the string is a template for resolve_expression
IsTemplate(e) == TemplateMatch(Strip(e.s)).ok

\* execute_conditional_step selects its branch in the step being taken
ConditionalSelected ==
    /\ AtStep
    /\ workflow[idx].step_type = "conditional"
    /\ pc' = "branch"

\* C40: at the selection of its branch, a Conditional step whose condition
\* is a template that resolves to not-found (None) takes `if_false`, and one
\* whose condition is a non-empty string that is not a template takes
\* `if_true`, whatever the string says.
C40_NotFoundAndLiteralConditions == [][
    ConditionalSelected =>
        /\ (IsTemplate(workflow[idx].condition) /\ ConditionValue(idx) = NoneV) =>
              branch_steps' = Get(workflow[idx].branches, W_if_false, <<>>)
        /\ (workflow[idx].condition.s # <<>> /\ ~IsTemplate(workflow[idx].condition)) =>
              branch_steps' = Get(workflow[idx].branches, W_if_true, <<>>)
    ]_vars

\* the condition reads the output of a step declared later that has no entry
\* yet, and the loop over `if_false` has been entered
C40_Witness ==
    /\ entry = "execute_workflow"
    /\ pc = "branch"
    /\ workflow[idx].step_type = "conditional"
    /\ idx < Len(workflow)
    /\ workflow[idx].condition = StepRef(workflow[idx + 1].id, << <<"v">> >>)
    /\ workflow[idx + 1].id \notin DOMAIN step_outputs
    /\ branch_steps = workflow[idx].branches.m[W_if_false]
    /\ branch_steps # workflow[idx].branches.m[W_if_true]

\* the condition is the text `false` and the loop over `if_true` has been
\* entered
LiteralFalseTakesTrue ==
    /\ entry = "execute_workflow"
    /\ pc = "branch"
    /\ workflow[idx].step_type = "conditional"
    /\ workflow[idx].condition = PyStr(<<"f", "a", "l", "s", "e">>)
    /\ branch_steps = workflow[idx].branches.m[W_if_true]

\* the condition reads a key that the workflow input lacks and the loop over
\* `if_false` has been entered
MissingInputTakesFalse ==
    /\ entry = "execute_workflow"
    /\ pc = "branch"
    /\ workflow[idx].step_type = "conditional"
    /\ workflow[idx].condition = InputRef(<< <<"f">> >>)
    /\ <<"f">> \notin DOMAIN workflow_input.m
    /\ branch_steps = workflow[idx].branches.m[W_if_false]

\* the step the condition reads was recorded later with a truthy value,
\* after `if_false` had been executed
RecordedTooLate ==
    /\ entry = "execute_workflow"
    /\ pc = "returned"
    /\ \E k \in TopLevel("conditional") :
          /\ Truthy(ConditionValue(k))
          /\ \A i \in TasksOf(k) :
                tasks[i].step = WorkflowStep(workflow[k].branches.m[W_if_false][tasks[i].pos])

====
